---- MODULE Spec2Model ----
(***************************************************************************)
(* ForgeAI Companion: the safety policy engine (safety.rs), the action     *)
(* dispatcher (local_actions.rs) and the entry points that hand requests   *)
(* to the dispatcher (commands.rs, connection.rs).                         *)
(*                                                                         *)
(* Text is kept as TLA+ strings; the string functions of the program       *)
(* (to_lowercase, replace, trim, starts_with, contains, the regular        *)
(* expressions) are computed character by character.                       *)
(***************************************************************************)
EXTENDS Integers, Sequences, FiniteSets, TLC

VARIABLES
    hist,       \* the dispatches of the request being (re)submitted, oldest first
    slots,      \* gateway_ws_loop: action requests spawned and not yet run
    outq,       \* gateway_ws_loop: the unbounded channel tx -> rx of outgoing frames
    wire,       \* frames the send task has written to the WebSocket, in order
    GATEWAY_WS_ACTIVE,  \* the flag spawn_gateway_ws swaps
    RECONNECT_NOTIFY,   \* whether the Notify holds a permit nobody has taken yet
    loops,      \* the gateway_ws_loop tasks spawned so far: where each one is
    calls,      \* the calls of the start and reconnect commands: where each one is
    credentials,    \* the credentials in the secret store, if any
    connection  \* the GatewayConnection object of connection.rs and its tasks

vars == <<hist, slots, outq, wire, GATEWAY_WS_ACTIVE, RECONNECT_NOTIFY, loops, calls,
          credentials, connection>>

\* the state of the life cycle of the control channel
lifecycle == <<GATEWAY_WS_ACTIVE, RECONNECT_NOTIFY, loops, calls, credentials, connection>>

(***************************************************************************)
(* Strings                                                                 *)
(***************************************************************************)
None == <<>>
Some(x) == <<x>>
IsSome(o) == o /= <<>>
Unwrap(o) == o[1]

Min(a, b) == IF a < b THEN a ELSE b

\* a "let" binding: the value is computed once and named inside F
Bind(v, F(_)) == F(v)

CharAt(s, i) == SubSeq(s, i, i)

UpperChars == "ABCDEFGHIJKLMNOPQRSTUVWXYZ"
LowerChars == "abcdefghijklmnopqrstuvwxyz"
\* Unicode White_Space restricted to the ASCII range
WhiteChars == " \t\n\r\f"

InChars(c, cs) == \E i \in 1..Len(cs) : CharAt(cs, i) = c

lower_char(c) ==
    IF InChars(c, UpperChars)
    THEN CharAt(LowerChars, CHOOSE i \in 1..Len(UpperChars) : CharAt(UpperChars, i) = c)
    ELSE c

RECURSIVE to_lowercase(_)
to_lowercase(s) ==
    IF Len(s) = 0 THEN ""
    ELSE lower_char(CharAt(s, 1)) \o to_lowercase(SubSeq(s, 2, Len(s)))

\* str::replace for a one-character pattern
RECURSIVE replace(_, _, _)
replace(s, from, to) ==
    IF Len(s) = 0 THEN ""
    ELSE (IF CharAt(s, 1) = from THEN to ELSE CharAt(s, 1))
         \o replace(SubSeq(s, 2, Len(s)), from, to)

starts_with_raw(s, p) == Len(p) > 0 /\ Len(s) >= Len(p) /\ SubSeq(s, 1, Len(p)) = p

\* str::replace for a pattern of any length (leftmost, non-overlapping)
RECURSIVE replace_str(_, _, _)
replace_str(s, from, to) ==
    IF Len(s) = 0 THEN ""
    ELSE IF starts_with_raw(s, from)
    THEN to \o replace_str(SubSeq(s, Len(from) + 1, Len(s)), from, to)
    ELSE CharAt(s, 1) \o replace_str(SubSeq(s, 2, Len(s)), from, to)

RECURSIVE trim_start(_)
trim_start(s) ==
    IF Len(s) > 0 /\ InChars(CharAt(s, 1), WhiteChars)
    THEN trim_start(SubSeq(s, 2, Len(s)))
    ELSE s

RECURSIVE trim_end(_)
trim_end(s) ==
    IF Len(s) > 0 /\ InChars(CharAt(s, Len(s)), WhiteChars)
    THEN trim_end(SubSeq(s, 1, Len(s) - 1))
    ELSE s

trim(s) == trim_end(trim_start(s))

starts_with(s, p) == Len(s) >= Len(p) /\ SubSeq(s, 1, Len(p)) = p

ends_with(s, p) == Len(s) >= Len(p) /\ SubSeq(s, Len(s) - Len(p) + 1, Len(s)) = p

contains(s, p) ==
    \E i \in 1..(Len(s) - Len(p) + 1) : SubSeq(s, i, i + Len(p) - 1) = p

(***************************************************************************)
(* Regular expressions (the regex crate, leftmost search, no anchoring     *)
(* unless the pattern says so).  A pattern is a sequence of elements.      *)
(***************************************************************************)
Lit(s) == [t |-> "lit", s |-> s]
Alt(ss) == [t |-> "alt", ss |-> ss]
\* a character class repeated min..max times; max = -1 is unbounded
Rep(cs, min, max) == [t |-> "rep", cs |-> cs, neg |-> FALSE, min |-> min, max |-> max]
\* a negated class, as '.' is (every character but the line feed)
RepNot(cs, min, max) == [t |-> "rep", cs |-> cs, neg |-> TRUE, min |-> min, max |-> max]
EndOfText == [t |-> "end"]

InClass(c, e) == IF e.neg THEN ~InChars(c, e.cs) ELSE InChars(c, e.cs)

RECURSIVE MatchFrom(_, _, _, _)
MatchFrom(pat, k, s, i) ==
    IF k > Len(pat) THEN TRUE
    ELSE LET e == pat[k] IN
        CASE e.t = "lit" ->
                /\ i + Len(e.s) - 1 <= Len(s)
                /\ SubSeq(s, i, i + Len(e.s) - 1) = e.s
                /\ MatchFrom(pat, k + 1, s, i + Len(e.s))
          [] e.t = "alt" ->
                \E a \in e.ss :
                    /\ i + Len(a) - 1 <= Len(s)
                    /\ SubSeq(s, i, i + Len(a) - 1) = a
                    /\ MatchFrom(pat, k + 1, s, i + Len(a))
          [] e.t = "rep" ->
                LET avail == Len(s) - i + 1
                    top == IF e.max < 0 THEN avail ELSE Min(e.max, avail)
                IN \E n \in e.min..top :
                    /\ \A j \in i..(i + n - 1) : InClass(CharAt(s, j), e)
                    /\ MatchFrom(pat, k + 1, s, i + n)
          [] e.t = "end" ->
                /\ i = Len(s) + 1
                /\ MatchFrom(pat, k + 1, s, i)

is_match(pat, s) == \E i \in 1..(Len(s) + 1) : MatchFrom(pat, 1, s, i)

(***************************************************************************)
(* safety.rs: the static lists                                             *)
(***************************************************************************)
Safe == "Safe"
Low == "Low"
Medium == "Medium"
High == "High"
Blocked == "Blocked"
RiskLevel == {Safe, Low, Medium, High, Blocked}

SafetyVerdict(allowed, risk, reason, requires_confirmation) ==
    [allowed |-> allowed, risk |-> risk, reason |-> reason,
     requires_confirmation |-> requires_confirmation]

PROTECTED_DIRS == <<
    "C:\\Windows",
    "C:\\Windows\\System32",
    "C:\\Windows\\SysWOW64",
    "C:\\Windows\\WinSxS",
    "C:\\Windows\\Boot",
    "C:\\Windows\\Fonts",
    "C:\\Windows\\Installer",
    "C:\\Windows\\servicing",
    "C:\\Program Files",
    "C:\\Program Files (x86)",
    "C:\\ProgramData\\Microsoft",
    "C:\\Recovery",
    "C:\\$Recycle.Bin",
    "C:\\System Volume Information",
    "C:\\Boot",
    "C:\\EFI" >>

PROTECTED_EXTENSIONS == <<
    "sys", "dll", "exe", "drv", "ocx", "cpl", "scr",
    "msi", "msp", "mst", "cat", "inf", "mui" >>

BLOCKED_COMMANDS == <<
    "format ",
    "format.com",
    "diskpart",
    "clean all",
    "rd /s /q c:\\",
    "rd /s /q c:/",
    "rmdir /s /q c:\\",
    "rmdir /s /q c:/",
    "del /f /s /q c:\\",
    "del /f /s /q c:/",
    "cipher /w:",
    "sfc /scannow",
    "bcdedit",
    "bcdboot",
    "bootrec",
    "reagentc",
    "dism /online /cleanup",
    "powershell -ep bypass",
    "set-executionpolicy unrestricted",
    "disable-windowsoptionalfeature",
    "reg delete hklm\\system",
    "reg delete hklm\\software\\microsoft",
    "reg delete hklm\\sam",
    "reg delete hklm\\security",
    "net stop windefend",
    "sc stop windefend",
    "sc delete",
    "netsh advfirewall set allprofiles state off",
    "wmic os delete",
    "shutdown /s",
    "shutdown /r",
    "shutdown /f",
    "taskkill /f /im csrss",
    "taskkill /f /im lsass",
    "taskkill /f /im winlogon",
    "taskkill /f /im svchost",
    "taskkill /f /im smss",
    "takeown /f c:\\windows",
    "icacls c:\\windows",
    "mklink /d c:\\windows" >>

PROTECTED_REGISTRY == <<
    "HKLM\\SYSTEM\\CurrentControlSet",
    "HKLM\\SAM",
    "HKLM\\SECURITY",
    "HKLM\\SOFTWARE\\Microsoft\\Windows\\CurrentVersion\\Run",
    "HKLM\\SOFTWARE\\Microsoft\\Windows NT\\CurrentVersion\\Winlogon",
    "HKLM\\SOFTWARE\\Policies",
    "HKCU\\Software\\Microsoft\\Windows\\CurrentVersion\\Run" >>

PROTECTED_PROCESSES == <<
    "csrss.exe", "lsass.exe", "smss.exe", "wininit.exe",
    "winlogon.exe", "services.exe", "svchost.exe", "dwm.exe",
    "explorer.exe", "taskmgr.exe", "msmpeng.exe", "securityhealthservice.exe" >>

Range(seq) == {seq[i] : i \in 1..Len(seq)}

(***************************************************************************)
(* std::path::Path::extension on the normalized text (Windows: the         *)
(* components are separated by '\'; a trailing separator or a trailing     *)
(* "\." is not a component)                                                *)
(***************************************************************************)
RECURSIVE strip_trailing(_)
strip_trailing(p) ==
    IF ends_with(p, "\\") THEN strip_trailing(SubSeq(p, 1, Len(p) - 1))
    ELSE IF ends_with(p, "\\.") THEN strip_trailing(SubSeq(p, 1, Len(p) - 2))
    ELSE p

\* index of the last occurrence of the character c in s, 0 when there is none
LastIndexOf(s, c) ==
    Bind({i \in 1..Len(s) : CharAt(s, i) = c}, LAMBDA hits :
        IF hits = {} THEN 0 ELSE CHOOSE i \in hits : \A j \in hits : j <= i)

file_name(p) ==
    Bind(strip_trailing(p), LAMBDA q :
    Bind(LastIndexOf(q, "\\"), LAMBDA k :
    Bind(SubSeq(q, k + 1, Len(q)), LAMBDA rest :
    \* a drive prefix "c:" is a component of its own
    Bind(IF k = 0 /\ Len(rest) >= 2 /\ CharAt(rest, 2) = ":"
         THEN SubSeq(rest, 3, Len(rest)) ELSE rest, LAMBDA name :
        IF name = "" \/ name = ".." \/ name = "." THEN None ELSE Some(name)))))

extension(p) ==
    Bind(file_name(p), LAMBDA f :
        IF ~IsSome(f) THEN None
        ELSE Bind(Unwrap(f), LAMBDA name :
             Bind(LastIndexOf(name, "."), LAMBDA k :
                IF k <= 1 THEN None ELSE Some(SubSeq(name, k + 1, Len(name))))))

(***************************************************************************)
(* safety.rs: the checks                                                   *)
(***************************************************************************)
\* is_protected_path comparing the text as it was given, without to_lowercase
is_protected_path_case_sensitive(path) ==
    Bind(replace(path, "/", "\\"), LAMBDA normalized :
        \E i \in 1..Len(PROTECTED_DIRS) : starts_with(normalized, PROTECTED_DIRS[i]))

is_protected_path(path) ==
    Bind(to_lowercase(replace(path, "/", "\\")), LAMBDA normalized :
        \/ \E i \in 1..Len(PROTECTED_DIRS) :
              starts_with(normalized, to_lowercase(PROTECTED_DIRS[i]))
        \/ Bind(extension(normalized), LAMBDA ext :
              /\ IsSome(ext)
              /\ to_lowercase(Unwrap(ext)) \in Range(PROTECTED_EXTENSIONS)
              /\ \/ starts_with(normalized, "c:\\windows")
                 \/ starts_with(normalized, "c:\\program files")
                 \/ starts_with(normalized, "c:\\programdata\\microsoft")))

Quotes == "\"'"

\* the dangerous_patterns of is_blocked_command, in order
dangerous_patterns == <<
    \* (?i)rm\s+-rf?\s+/\s*$
    << Lit("rm"), Rep(WhiteChars, 1, -1), Lit("-r"), Rep("f", 0, 1), Rep(WhiteChars, 1, -1),
       Lit("/"), Rep(WhiteChars, 0, -1), EndOfText >>,
    \* (?i)del\s+/[sfq]+\s+[a-z]:\\\s*$
    << Lit("del"), Rep(WhiteChars, 1, -1), Lit("/"), Rep("sfq", 1, -1), Rep(WhiteChars, 1, -1),
       Rep(LowerChars, 1, 1), Lit(":\\"), Rep(WhiteChars, 0, -1), EndOfText >>,
    \* (?i)rmdir\s+/[sq]+\s+[a-z]:\\\s*$
    << Lit("rmdir"), Rep(WhiteChars, 1, -1), Lit("/"), Rep("sq", 1, -1), Rep(WhiteChars, 1, -1),
       Rep(LowerChars, 1, 1), Lit(":\\"), Rep(WhiteChars, 0, -1), EndOfText >>,
    \* (?i)remove-item\s+["']?[a-z]:\\["']?\s+-recurse
    << Lit("remove-item"), Rep(WhiteChars, 1, -1), Rep(Quotes, 0, 1), Rep(LowerChars, 1, 1),
       Lit(":\\"), Rep(Quotes, 0, 1), Rep(WhiteChars, 1, -1), Lit("-recurse") >>,
    \* (?i)format\s+[a-z]:
    << Lit("format"), Rep(WhiteChars, 1, -1), Rep(LowerChars, 1, 1), Lit(":") >>,
    \* (?i)(?:remove-item|del|rd|rmdir)\s+.*(?:c:\\windows|system32)
    << Alt({"remove-item", "del", "rd", "rmdir"}), Rep(WhiteChars, 1, -1),
       RepNot("\n", 0, -1), Alt({"c:\\windows", "system32"}) >> >>

\* Regex::as_str of each pattern
pattern_text == <<
    "(?i)rm\\s+-rf?\\s+/\\s*$",
    "(?i)del\\s+/[sfq]+\\s+[a-z]:\\\\\\s*$",
    "(?i)rmdir\\s+/[sq]+\\s+[a-z]:\\\\\\s*$",
    "(?i)remove-item\\s+[\"']?[a-z]:\\\\[\"']?\\s+-recurse",
    "(?i)format\\s+[a-z]:",
    "(?i)(?:remove-item|del|rd|rmdir)\\s+.*(?:c:\\\\windows|system32)" >>

\* Some(reason) when the command is blocked, None otherwise
is_blocked_command(command) ==
    Bind(trim(to_lowercase(command)), LAMBDA cmd_lower :
    Bind({i \in 1..Len(BLOCKED_COMMANDS) :
            contains(cmd_lower, to_lowercase(BLOCKED_COMMANDS[i]))}, LAMBDA hits :
        IF hits /= {}
        THEN Some("BLOCKED: Command contains '"
                  \o BLOCKED_COMMANDS[CHOOSE i \in hits : \A j \in hits : i <= j]
                  \o "' which could damage the system")
        ELSE Bind({i \in 1..Len(dangerous_patterns) :
                    is_match(dangerous_patterns[i], cmd_lower)}, LAMBDA pats :
            IF pats /= {}
            THEN Some("BLOCKED: Pattern matches a dangerous operation: "
                      \o pattern_text[CHOOSE i \in pats : \A j \in pats : i <= j])
            ELSE None)))

\* is_protected_process comparing the name with the listed names only
is_protected_process_listed_only(name) ==
    \E i \in 1..Len(PROTECTED_PROCESSES) : to_lowercase(name) = PROTECTED_PROCESSES[i]

is_protected_process(name) ==
    Bind(to_lowercase(name), LAMBDA name_lower :
        \E i \in 1..Len(PROTECTED_PROCESSES) :
          \/ name_lower = to_lowercase(PROTECTED_PROCESSES[i])
          \/ name_lower = to_lowercase(replace_str(PROTECTED_PROCESSES[i], ".exe", "")))

is_protected_registry(path) ==
    Bind(to_lowercase(path), LAMBDA path_lower :
        \E i \in 1..Len(PROTECTED_REGISTRY) :
          starts_with(path_lower, to_lowercase(PROTECTED_REGISTRY[i])))

\* the environment of the process: dirs::home_dir() and std::env::temp_dir()
HomeDir == "C:\\Users\\Operator"
TempDir == "C:\\Users\\Operator\\AppData\\Local\\Temp\\"

get_user_home == HomeDir

is_ascii_alphabetic(c) == InChars(c, UpperChars) \/ InChars(c, LowerChars)

is_user_directory(path) ==
    Bind(to_lowercase(replace(path, "/", "\\")), LAMBDA normalized :
    Bind(replace(to_lowercase(get_user_home), "/", "\\"), LAMBDA home :
        \/ starts_with(normalized, home)
        \/ starts_with(normalized, to_lowercase(TempDir))
        \/ /\ Len(normalized) >= 3
           /\ is_ascii_alphabetic(CharAt(normalized, 1))
           /\ CharAt(normalized, 2) = ":"
           /\ ~is_protected_path(normalized)))

\* check_file_operation looking at the protected paths before the read kinds
check_file_operation_protected_first(operation, path) ==
    IF is_protected_path(path)
    THEN SafetyVerdict(FALSE, Blocked,
            "BLOCKED: '" \o path \o "' is a system-protected path. This operation is never allowed.",
            FALSE)
    ELSE IF to_lowercase(operation) \in {"read", "list", "stat", "exists"}
    THEN SafetyVerdict(TRUE, Safe, "Read operations are always allowed", FALSE)
    ELSE SafetyVerdict(TRUE, Medium,
            "Unknown operation '" \o operation \o "' - requires confirmation", TRUE)

\* check_file_operation with the confirmation requirement of the delete kinds
\* and of the unknown kinds as parameters
check_file_operation_confirming(operation, path, delete_confirms, unknown_confirms) ==
    Bind(to_lowercase(operation), LAMBDA op :
    IF op \in {"read", "list", "stat", "exists"}
    THEN SafetyVerdict(TRUE, Safe, "Read operations are always allowed", FALSE)
    ELSE IF is_protected_path(path)
    THEN SafetyVerdict(FALSE, Blocked,
            "BLOCKED: '" \o path \o "' is a system-protected path. This operation is never allowed.",
            FALSE)
    ELSE IF op \in {"delete", "remove", "rmdir"}
    THEN SafetyVerdict(TRUE, Medium,
            "Delete operation on '" \o path \o "' - path is not system-protected",
            delete_confirms)
    ELSE IF op \in {"write", "create", "move", "copy", "rename"}
    THEN IF ~is_user_directory(path)
         THEN SafetyVerdict(FALSE, Blocked,
                 "BLOCKED: Cannot write to '" \o path \o "' - outside user directory", FALSE)
         ELSE SafetyVerdict(TRUE, Medium, "File operation within user directory", FALSE)
    ELSE SafetyVerdict(TRUE, Medium,
            "Unknown operation '" \o operation \o "' - requires confirmation",
            unknown_confirms))

\* check_file_operation asking for confirmation of the delete kinds
check_file_operation_delete_confirms(operation, path) ==
    check_file_operation_confirming(operation, path, TRUE, TRUE)

\* check_file_operation letting the unknown kinds through without confirmation
check_file_operation_unknown_silent(operation, path) ==
    check_file_operation_confirming(operation, path, FALSE, FALSE)

check_file_operation(operation, path) ==
    Bind(to_lowercase(operation), LAMBDA op :
    IF op = "read" \/ op = "list" \/ op = "stat" \/ op = "exists"
    THEN SafetyVerdict(TRUE, Safe, "Read operations are always allowed", FALSE)
    ELSE IF is_protected_path(path)
    THEN SafetyVerdict(FALSE, Blocked,
            "BLOCKED: '" \o path \o "' is a system-protected path. This operation is never allowed.",
            FALSE)
    ELSE IF op = "delete" \/ op = "remove" \/ op = "rmdir"
    THEN SafetyVerdict(TRUE, Medium,
            "Delete operation on '" \o path \o "' - path is not system-protected", FALSE)
    ELSE IF op = "write" \/ op = "create" \/ op = "move" \/ op = "copy" \/ op = "rename"
    THEN IF ~is_user_directory(path)
         THEN SafetyVerdict(FALSE, Blocked,
                 "BLOCKED: Cannot write to '" \o path \o "' - outside user directory", FALSE)
         ELSE SafetyVerdict(TRUE, Medium, "File operation within user directory", FALSE)
    ELSE SafetyVerdict(TRUE, Medium,
            "Unknown operation '" \o operation \o "' - requires confirmation", TRUE))

safe_commands == <<
    "dir ", "ls ", "type ", "cat ", "echo ", "where ", "whoami",
    "hostname", "ipconfig", "systeminfo", "tasklist", "wmic cpu",
    "wmic memorychip", "wmic diskdrive", "ver", "date /t", "time /t",
    "set ", "path", "tree " >>

medium_commands == <<
    "start ", "open ", "code ", "notepad", "calc", "mspaint",
    "mkdir ", "md ", "copy ", "xcopy ", "move ", "ren ",
    "npm ", "pnpm ", "node ", "python ", "pip ",
    "git ", "curl ", "wget " >>

high_commands == <<
    "del ", "erase ", "rmdir ", "rd ", "taskkill ",
    "net ", "netsh ", "sc ", "reg ",
    "powershell ", "pwsh ", "cmd /c",
    "wmic ", "runas " >>

\* the first entry of a prefix list the text starts with, 0 when there is none
FirstPrefix(list, s) ==
    Bind({i \in 1..Len(list) : starts_with(s, list[i])}, LAMBDA hits :
        IF hits = {} THEN 0 ELSE CHOOSE i \in hits : \A j \in hits : i <= j)

\* check_shell_command looking at the Safe prefixes before the deny-list
check_shell_command_safe_first(command) ==
    IF \E i \in 1..Len(safe_commands) : starts_with(to_lowercase(command), safe_commands[i])
    THEN SafetyVerdict(TRUE, Safe, "Read-only command", FALSE)
    ELSE Bind(is_blocked_command(command), LAMBDA blocked_reason :
        IF IsSome(blocked_reason)
        THEN SafetyVerdict(FALSE, Blocked, Unwrap(blocked_reason), FALSE)
        ELSE SafetyVerdict(TRUE, High, "Unknown command - requires user confirmation", TRUE))

\* check_shell_command going through the High prefixes before the Safe ones
check_shell_command_high_first(command) ==
    Bind(is_blocked_command(command), LAMBDA blocked_reason :
    IF IsSome(blocked_reason)
    THEN SafetyVerdict(FALSE, Blocked, Unwrap(blocked_reason), FALSE)
    ELSE Bind(to_lowercase(command), LAMBDA cmd_lower :
        Bind(FirstPrefix(high_commands, cmd_lower), LAMBDA high :
            IF high /= 0
            THEN SafetyVerdict(TRUE, High,
                    "High-risk command '" \o trim(high_commands[high])
                    \o "' requires user confirmation", TRUE)
            ELSE IF \E i \in 1..Len(safe_commands) :
                       \/ starts_with(cmd_lower, safe_commands[i])
                       \/ cmd_lower = trim(safe_commands[i])
            THEN SafetyVerdict(TRUE, Safe, "Read-only command", FALSE)
            ELSE Bind(FirstPrefix(medium_commands, cmd_lower), LAMBDA med :
                IF med /= 0
                THEN SafetyVerdict(TRUE, Medium,
                        "Application/file command: " \o trim(medium_commands[med]), FALSE)
                ELSE SafetyVerdict(TRUE, High,
                        "Unknown command - requires user confirmation", TRUE)))))

check_shell_command(command) ==
    Bind(is_blocked_command(command), LAMBDA blocked_reason :
    IF IsSome(blocked_reason)
    THEN SafetyVerdict(FALSE, Blocked, Unwrap(blocked_reason), FALSE)
    ELSE Bind(to_lowercase(command), LAMBDA cmd_lower :
        IF \E i \in 1..Len(safe_commands) :
               \/ starts_with(cmd_lower, safe_commands[i])
               \/ cmd_lower = trim(safe_commands[i])
        THEN SafetyVerdict(TRUE, Safe, "Read-only command", FALSE)
        ELSE Bind(FirstPrefix(medium_commands, cmd_lower), LAMBDA med :
            IF med /= 0
            THEN SafetyVerdict(TRUE, Medium,
                    "Application/file command: " \o trim(medium_commands[med]), FALSE)
            ELSE Bind(FirstPrefix(high_commands, cmd_lower), LAMBDA high :
                IF high /= 0
                THEN SafetyVerdict(TRUE, High,
                        "High-risk command '" \o trim(high_commands[high])
                        \o "' requires user confirmation", TRUE)
                ELSE SafetyVerdict(TRUE, High,
                        "Unknown command - requires user confirmation", TRUE)))))

\* check_process_kill asking for a confirmation of what it blocks
check_process_kill_confirm_blocked(process_name) ==
    IF is_protected_process(process_name)
    THEN SafetyVerdict(FALSE, Blocked, "BLOCKED: critical system process", TRUE)
    ELSE SafetyVerdict(TRUE, High,
            "Killing process '" \o process_name \o "' requires confirmation", TRUE)

check_process_kill(process_name) ==
    IF is_protected_process(process_name)
    THEN SafetyVerdict(FALSE, Blocked,
            "BLOCKED: '" \o process_name
            \o "' is a critical system process and cannot be terminated", FALSE)
    ELSE SafetyVerdict(TRUE, High,
            "Killing process '" \o process_name \o "' requires confirmation", TRUE)

(***************************************************************************)
(* local_actions.rs: requests, results and the outcome of a dispatch       *)
(***************************************************************************)
ActionRequest(action, path, command, content, process_name, app_name, cwd, confirmed) ==
    [action |-> action, path |-> path, command |-> command, content |-> content,
     process_name |-> process_name, app_name |-> app_name, cwd |-> cwd,
     confirmed |-> confirmed]

ActionResult(success, output, safety) ==
    [success |-> success, output |-> output, safety |-> safety]

blocked(verdict) == ActionResult(FALSE, verdict.reason, verdict)

ok(output, verdict) == ActionResult(TRUE, output, verdict)

err(error, verdict) == ActionResult(FALSE, error, verdict)

CONFIRM_MARKER == "CONFIRMATION REQUIRED"

needs_confirm(verdict) ==
    ActionResult(FALSE,
        CONFIRM_MARKER \o ": " \o verdict.reason \o ". Reply 'yes' to proceed.",
        verdict)

safe_verdict == SafetyVerdict(TRUE, Safe, "", FALSE)

\* What one dispatch did, in program order: the verdicts it obtained from the
\* classifier and the system operations it invoked; and what it returned.
Checked(fn, verdict) == [ev |-> "check", fn |-> fn, verdict |-> verdict]
Sys(op, args) == [ev |-> "sys", op |-> op, args |-> args]
Ran(trace, result) == [trace |-> trace, result |-> result]

\* The answers of the operating system to one dispatch:
\*   ok      the (last) system operation succeeded
\*   probe   the answer to a query made on the way: Path::is_dir, Path::exists,
\*           or whether the screenshot file could be read back
\*   out     the text read or captured on standard output
\*   errout  the text captured on standard error
\*   msg     the text of the io::Error when the operation failed
OsAnswer(okay, probe, out, errout) ==
    [ok |-> okay, probe |-> probe, out |-> out, errout |-> errout, msg |-> "os error"]

READ_LIMIT == 50000
SHELL_LIMIT == 30000

(***************************************************************************)
(* Texts are strings of bytes, as String::len and the slices of the code   *)
(* count them: a character of a TLA+ string stands for one byte.  A        *)
(* character outside ASCII takes several bytes in UTF-8; E_ACUTE is the    *)
(* two bytes C3 A9 of U+00E9, and a string can be cut between two          *)
(* characters only.                                                        *)
(***************************************************************************)
E_ACUTE == "Ã©"
ContinuationBytes == {"©"}

\* str::is_char_boundary
is_char_boundary(s, index) ==
    \/ index = 0
    \/ index = Len(s)
    \/ index < Len(s) /\ CharAt(s, index + 1) \notin ContinuationBytes

\* what a call returns that panicked: nothing
Panicked == [panicked |-> TRUE]

\* &text[..limit] inside format!: the text cut at the limit with the marker
\* behind it, the text itself when it is within the limit, and None when
\* the slice panics because the limit is inside a character
truncate_at(text, limit, marker) ==
    IF Len(text) <= limit THEN Some(text)
    ELSE IF is_char_boundary(text, limit) THEN Some(SubSeq(text, 1, limit) \o marker)
    ELSE None

\* ActionResult::ok of the text, when there is one
ok_text(text, verdict) == IF IsSome(text) THEN ok(Unwrap(text), verdict) ELSE Panicked

(***************************************************************************)
(* local_actions.rs: file operations                                       *)
(***************************************************************************)
\* read_file reading the working directory when no path is given
read_file_default_path(req, os) ==
    Bind(IF IsSome(req.path) THEN Unwrap(req.path) ELSE ".", LAMBDA path :
    Bind(check_file_operation("read", path), LAMBDA verdict :
    Bind(Checked("check_file_operation", verdict), LAMBDA c :
        IF ~verdict.allowed THEN Ran(<<c>>, blocked(verdict))
        ELSE Ran(<<c, Sys("fs::read_to_string", <<path>>)>>,
                IF os.ok THEN ok(os.out, verdict)
                ELSE err("Failed to read: " \o os.msg, verdict)))))

read_file(req, os) ==
    IF ~IsSome(req.path) THEN Ran(<<>>, err("path is required", safe_verdict))
    ELSE Bind(Unwrap(req.path), LAMBDA path :
         Bind(check_file_operation("read", path), LAMBDA verdict :
         Bind(Checked("check_file_operation", verdict), LAMBDA c :
            IF ~verdict.allowed THEN Ran(<<c>>, blocked(verdict))
            ELSE Ran(<<c, Sys("fs::read_to_string", <<path>>)>>,
                    IF os.ok
                    THEN ok_text(truncate_at(os.out, READ_LIMIT,
                                    "...\n\n[Truncated: " \o ToString(Len(os.out))
                                    \o " bytes total]"), verdict)
                    ELSE err("Failed to read: " \o os.msg, verdict)))))

\* Path::parent: None for an empty path and for a root, otherwise the text
\* before the last component
parent(path) ==
    Bind(strip_trailing(replace(path, "/", "\\")), LAMBDA q :
    Bind(LastIndexOf(q, "\\"), LAMBDA k :
        IF q = "" \/ (Len(q) = 2 /\ CharAt(q, 2) = ":") THEN None
        ELSE IF k = 0 THEN Some("")
        ELSE Some(SubSeq(path, 1, k - 1))))

\* write_file taking a missing content for the empty text
write_file_empty_default(req, os) ==
    IF ~IsSome(req.path) THEN Ran(<<>>, err("path is required", safe_verdict))
    ELSE Bind(Unwrap(req.path), LAMBDA path :
         Bind(IF IsSome(req.content) THEN Unwrap(req.content) ELSE "", LAMBDA content :
         Bind(check_file_operation("write", path), LAMBDA verdict :
         Bind(Checked("check_file_operation", verdict), LAMBDA c :
            IF ~verdict.allowed THEN Ran(<<c>>, blocked(verdict))
            ELSE Ran(<<c, Sys("fs::write", <<path, content>>)>>,
                    IF os.ok
                    THEN ok("Written " \o ToString(Len(content)) \o " bytes to " \o path,
                            verdict)
                    ELSE err("Failed to write: " \o os.msg, verdict))))))

write_file(req, os) ==
    IF ~IsSome(req.path) THEN Ran(<<>>, err("path is required", safe_verdict))
    ELSE IF ~IsSome(req.content) THEN Ran(<<>>, err("content is required", safe_verdict))
    ELSE Bind(Unwrap(req.path), LAMBDA path :
         Bind(Unwrap(req.content), LAMBDA content :
         Bind(check_file_operation("write", path), LAMBDA verdict :
         Bind(Checked("check_file_operation", verdict), LAMBDA c :
         Bind(parent(path), LAMBDA dir :
            IF ~verdict.allowed THEN Ran(<<c>>, blocked(verdict))
            ELSE Ran(<<c>>
                     \o (IF IsSome(dir)
                         THEN <<Sys("fs::create_dir_all", <<Unwrap(dir)>>)>>
                         ELSE <<>>)
                     \o <<Sys("fs::write", <<path, content>>)>>,
                    IF os.ok
                    THEN ok("Written " \o ToString(Len(content)) \o " bytes to " \o path,
                            verdict)
                    ELSE err("Failed to write: " \o os.msg, verdict)))))))

\* delete_file without the early return on a verdict that is not allowed
delete_file_unchecked(req, os) ==
    IF ~IsSome(req.path) THEN Ran(<<>>, err("path is required", safe_verdict))
    ELSE Bind(Unwrap(req.path), LAMBDA path :
         Bind(check_file_operation("delete", path), LAMBDA verdict :
            Ran(<<Checked("check_file_operation", verdict),
                  Sys(IF os.probe THEN "fs::remove_dir_all" ELSE "fs::remove_file",
                      <<path>>)>>,
                IF os.ok THEN ok("Deleted: " \o path, verdict)
                ELSE err("Failed to delete: " \o os.msg, verdict))))

delete_file(req, os) ==
    IF ~IsSome(req.path) THEN Ran(<<>>, err("path is required", safe_verdict))
    ELSE Bind(Unwrap(req.path), LAMBDA path :
         Bind(check_file_operation("delete", path), LAMBDA verdict :
         Bind(Checked("check_file_operation", verdict), LAMBDA c :
            IF ~verdict.allowed THEN Ran(<<c>>, blocked(verdict))
            ELSE IF verdict.requires_confirmation /\ ~req.confirmed
            THEN Ran(<<c>>, needs_confirm(verdict))
            ELSE Ran(<<c, Sys(IF os.probe THEN "fs::remove_dir_all" ELSE "fs::remove_file",
                              <<path>>)>>,
                    IF os.ok THEN ok("Deleted: " \o path, verdict)
                    ELSE err("Failed to delete: " \o os.msg, verdict)))))

list_dir(req, os) ==
    Bind(IF IsSome(req.path) THEN Unwrap(req.path) ELSE ".", LAMBDA path :
    Bind(check_file_operation("list", path), LAMBDA verdict :
    Bind(Checked("check_file_operation", verdict), LAMBDA c :
        IF ~verdict.allowed THEN Ran(<<c>>, blocked(verdict))
        ELSE Ran(<<c, Sys("fs::read_dir", <<path>>)>>,
                IF os.ok
                THEN ok(IF os.out = "" THEN "(empty directory)" ELSE os.out, verdict)
                ELSE err("Failed to list: " \o os.msg, verdict)))))

create_dir(req, os) ==
    IF ~IsSome(req.path) THEN Ran(<<>>, err("path is required", safe_verdict))
    ELSE Bind(Unwrap(req.path), LAMBDA path :
         Bind(check_file_operation("create", path), LAMBDA verdict :
         Bind(Checked("check_file_operation", verdict), LAMBDA c :
            IF ~verdict.allowed THEN Ran(<<c>>, blocked(verdict))
            ELSE Ran(<<c, Sys("fs::create_dir_all", <<path>>)>>,
                    IF os.ok THEN ok("Created directory: " \o path, verdict)
                    ELSE err("Failed to create: " \o os.msg, verdict)))))

file_exists(req, os) ==
    IF ~IsSome(req.path) THEN Ran(<<>>, err("path is required", safe_verdict))
    ELSE Bind(Unwrap(req.path), LAMBDA path :
            Ran(<<Sys("Path::exists", <<path>>)>>,
                ok(path \o ": " \o (IF os.probe THEN "exists" ELSE "not found"),
                   safe_verdict)))

file_info(req, os) ==
    IF ~IsSome(req.path) THEN Ran(<<>>, err("path is required", safe_verdict))
    ELSE Bind(Unwrap(req.path), LAMBDA path :
            Ran(<<Sys("fs::metadata", <<path>>)>>,
                IF os.ok
                \* os.out: the Size, Readonly and Modified lines of the metadata
                THEN ok("Path: " \o path \o "\nType: "
                        \o (IF os.probe THEN "Directory" ELSE "File")
                        \o "\n" \o os.out, safe_verdict)
                ELSE err("Failed: " \o os.msg, safe_verdict)))

move_file(req, os) ==
    IF ~IsSome(req.path)
    THEN Ran(<<>>, err("path (source) is required", safe_verdict))
    ELSE IF ~IsSome(req.content)
    THEN Ran(<<>>, err("content (destination) is required", safe_verdict))
    ELSE Bind(Unwrap(req.path), LAMBDA from :
         Bind(Unwrap(req.content), LAMBDA to :
         Bind(check_file_operation("move", from), LAMBDA verdict_from :
         Bind(check_file_operation("write", to), LAMBDA verdict_to :
         Bind(<<Checked("check_file_operation", verdict_from),
                Checked("check_file_operation", verdict_to)>>, LAMBDA cs :
            IF ~verdict_from.allowed THEN Ran(cs, blocked(verdict_from))
            ELSE IF ~verdict_to.allowed THEN Ran(cs, blocked(verdict_to))
            ELSE Ran(cs \o <<Sys("fs::rename", <<from, to>>)>>,
                    IF os.ok THEN ok("Moved " \o from \o " -> " \o to, verdict_from)
                    ELSE err("Failed to move: " \o os.msg, verdict_from)))))))

copy_file(req, os) ==
    IF ~IsSome(req.path)
    THEN Ran(<<>>, err("path (source) is required", safe_verdict))
    ELSE IF ~IsSome(req.content)
    THEN Ran(<<>>, err("content (destination) is required", safe_verdict))
    ELSE Bind(Unwrap(req.path), LAMBDA from :
         Bind(Unwrap(req.content), LAMBDA to :
         Bind(check_file_operation("copy", to), LAMBDA verdict :
         Bind(Checked("check_file_operation", verdict), LAMBDA c :
            IF ~verdict.allowed THEN Ran(<<c>>, blocked(verdict))
            ELSE Ran(<<c, Sys("fs::copy", <<from, to>>)>>,
                    IF os.ok
                    THEN ok("Copied " \o from \o " -> " \o to \o " ("
                            \o ToString(Len(os.out)) \o " bytes)", verdict)
                    ELSE err("Failed to copy: " \o os.msg, verdict))))))

(***************************************************************************)
(* local_actions.rs: shell, applications, processes, system information    *)
(***************************************************************************)
run_shell(req, os) ==
    IF ~IsSome(req.command) THEN Ran(<<>>, err("command is required", safe_verdict))
    ELSE Bind(Unwrap(req.command), LAMBDA command :
         Bind(check_shell_command(command), LAMBDA verdict :
         Bind(Checked("check_shell_command", verdict), LAMBDA c :
            IF ~verdict.allowed THEN Ran(<<c>>, blocked(verdict))
            ELSE IF verdict.requires_confirmation /\ ~req.confirmed
            THEN Ran(<<c>>, needs_confirm(verdict))
            ELSE Ran(<<c>>
                     \o (IF IsSome(req.cwd)
                         THEN <<Sys("Path::exists", <<Unwrap(req.cwd)>>)>> ELSE <<>>)
                     \o <<Sys("spawn",
                              <<"powershell.exe", "-NoProfile", "-NonInteractive",
                                "-Command", command>>)>>,
                    IF os.ok
                    THEN Bind(IF os.errout = "" THEN os.out
                              ELSE os.out \o "\n[STDERR]\n" \o os.errout, LAMBDA combined :
                            ok_text(truncate_at(combined, SHELL_LIMIT,
                                        "...\n[Truncated: " \o ToString(Len(combined))
                                        \o " chars]"), verdict))
                    ELSE err("Failed to execute: " \o os.msg, verdict)))))

open_app(req, os) ==
    IF ~IsSome(req.app_name) THEN Ran(<<>>, err("app_name is required", safe_verdict))
    ELSE Bind(Unwrap(req.app_name), LAMBDA app :
         Bind(SafetyVerdict(TRUE, Medium, "Opening application: " \o app, FALSE),
              LAMBDA verdict :
            Ran(<<Sys("spawn", <<"cmd", "/C", "start", "", app>>)>>,
                IF os.ok THEN ok("Launched: " \o app, verdict)
                ELSE err("Failed to open " \o app \o ": " \o os.msg, verdict))))

open_url(req, os) ==
    IF ~IsSome(req.path) THEN Ran(<<>>, err("path (URL) is required", safe_verdict))
    ELSE Bind(Unwrap(req.path), LAMBDA url :
            Ran(<<Sys("spawn", <<"cmd", "/C", "start", "", url>>)>>,
                IF os.ok
                THEN ok("Opened URL: " \o url,
                        SafetyVerdict(TRUE, Low, "Opening URL in default browser", FALSE))
                ELSE err("Failed: " \o os.msg, safe_verdict)))

list_processes(os) ==
    Ran(<<Sys("spawn", <<"tasklist", "/FO", "CSV", "/NH">>)>>,
        IF os.ok THEN ok("Top 50 processes:\n" \o os.out, safe_verdict)
        ELSE err("Failed: " \o os.msg, safe_verdict))

\* kill_process without the early return on a request that is not confirmed
kill_process_ungated(req, os) ==
    IF ~IsSome(req.process_name)
    THEN Ran(<<>>, err("process_name is required", safe_verdict))
    ELSE Bind(Unwrap(req.process_name), LAMBDA name :
         Bind(check_process_kill(name), LAMBDA verdict :
         Bind(Checked("check_process_kill", verdict), LAMBDA c :
            IF ~verdict.allowed THEN Ran(<<c>>, blocked(verdict))
            ELSE Ran(<<c, Sys("spawn", <<"taskkill", "/IM", name, "/F">>)>>,
                    IF os.ok THEN ok(os.out, verdict)
                    ELSE err("Failed: " \o os.msg, verdict)))))

kill_process(req, os) ==
    IF ~IsSome(req.process_name)
    THEN Ran(<<>>, err("process_name is required", safe_verdict))
    ELSE Bind(Unwrap(req.process_name), LAMBDA name :
         Bind(check_process_kill(name), LAMBDA verdict :
         Bind(Checked("check_process_kill", verdict), LAMBDA c :
            IF ~verdict.allowed THEN Ran(<<c>>, blocked(verdict))
            ELSE IF ~req.confirmed THEN Ran(<<c>>, needs_confirm(verdict))
            ELSE Ran(<<c, Sys("spawn", <<"taskkill", "/IM", name, "/F">>)>>,
                    IF os.ok THEN ok(os.out, verdict)
                    ELSE err("Failed: " \o os.msg, verdict)))))

system_info(os) ==
    Ran(<<Sys("spawn", <<"cmd", "/C", "systeminfo | findstr">>)>>,
        IF os.ok THEN ok(os.out, safe_verdict)
        ELSE err("Failed: " \o os.msg, safe_verdict))

disk_usage(os) ==
    Ran(<<Sys("spawn", <<"wmic", "logicaldisk", "get", "caption,freespace,size",
                        "/format:csv">>)>>,
        IF os.ok THEN ok(os.out, safe_verdict)
        ELSE err("Failed: " \o os.msg, safe_verdict))

\* the default arm of execute with a verdict that allows
unknown_action_allowed(req) ==
    Ran(<<>>, ActionResult(FALSE, "Unknown action: " \o req.action,
                           SafetyVerdict(TRUE, Blocked, "Unknown action", FALSE)))

unknown_action(req) ==
    Ran(<<>>, ActionResult(FALSE, "Unknown action: " \o req.action,
                           SafetyVerdict(FALSE, Blocked, "Unknown action", FALSE)))

execute(request, os) ==
    CASE request.action = "read_file" -> read_file(request, os)
      [] request.action = "write_file" -> write_file(request, os)
      [] request.action = "delete_file" -> delete_file(request, os)
      [] request.action = "list_dir" -> list_dir(request, os)
      [] request.action = "create_dir" -> create_dir(request, os)
      [] request.action = "file_exists" -> file_exists(request, os)
      [] request.action = "file_info" -> file_info(request, os)
      [] request.action = "move_file" -> move_file(request, os)
      [] request.action = "copy_file" -> copy_file(request, os)
      [] request.action = "shell" -> run_shell(request, os)
      [] request.action = "open_app" -> open_app(request, os)
      [] request.action = "open_url" -> open_url(request, os)
      [] request.action = "list_processes" -> list_processes(os)
      [] request.action = "kill_process" -> kill_process(request, os)
      [] request.action = "system_info" -> system_info(os)
      [] request.action = "disk_usage" -> disk_usage(os)
      [] OTHER -> unknown_action(request)

(***************************************************************************)
(* JSON values (serde_json::Value) as they arrive in frames                *)
(***************************************************************************)
JStr(s) == [t |-> "str", v |-> s]
JNum(n) == [t |-> "num", v |-> n]
JBool(b) == [t |-> "bool", v |-> b]
JObj(f) == [t |-> "obj", v |-> f]
JNull == [t |-> "null"]
NoKeys == [k \in {} |-> JNull]

\* Value::get(key): None unless the value is an object that has the key
get(value, key) ==
    IF value.t = "obj" /\ key \in DOMAIN value.v THEN Some(value.v[key]) ELSE None

\* .and_then(|v| v.as_str())
as_str(o) == IF IsSome(o) /\ Unwrap(o).t = "str" THEN Some(Unwrap(o).v) ELSE None

\* .and_then(|v| v.as_u64()) / as_f64() on the numbers of the model (naturals)
as_num(o) == IF IsSome(o) /\ Unwrap(o).t = "num" THEN Some(Unwrap(o).v) ELSE None

unwrap_or(o, d) == IF IsSome(o) THEN Unwrap(o) ELSE d

(***************************************************************************)
(* local_actions.rs: desktop automation                                    *)
(***************************************************************************)
MAX_DELAY_MS == 10000
DEFAULT_WAIT_MS == 1000
KEYS_ECHO == 50
TEXT_ECHO == 60

\* PowerShell's escape character U+0060, which a TLA+ string cannot hold
BackTick == "<U+0060>"

run_powershell(script, os) ==
    Ran(<<Sys("spawn", <<"powershell", "-NoProfile", "-NonInteractive", "-Command",
                         script>>)>>,
        IF os.ok
        THEN Bind(IF os.errout = "" THEN os.out
                  ELSE IF os.out = "" THEN "[STDERR] " \o os.errout
                  ELSE os.out \o "\n[STDERR] " \o os.errout, LAMBDA combined :
                ok_text(truncate_at(combined, SHELL_LIMIT, "...[truncated]"),
                        safe_verdict))
        ELSE err("PowerShell failed: " \o os.msg, safe_verdict))

\* The scripts are kept by their variable part: what is interpolated into them.
desktop_list_windows(os) == run_powershell("EnumWindows | ConvertTo-Json", os)

desktop_focus_window(target, os) ==
    IF target = ""
    THEN Ran(<<>>, err("target is required for focus_window", safe_verdict))
    ELSE run_powershell("SetForegroundWindow -like '*"
                        \o replace_str(target, "'", "''") \o "*'", os)

desktop_open_app(target, os) ==
    IF target = ""
    THEN Ran(<<>>, err("target is required for open_app", safe_verdict))
    ELSE Bind(replace_str(target, "\"", BackTick \o "\""), LAMBDA safe :
            run_powershell("Start-Process \"" \o safe
                           \o "\" -ErrorAction Stop; Start-Sleep -Seconds 2; Write-Output \"OPENED: "
                           \o safe \o "\"", os))

desktop_send_keys(keys, os) ==
    IF keys = ""
    THEN Ran(<<>>, err("text is required for send_keys", safe_verdict))
    ELSE IF ~is_char_boundary(keys, Min(Len(keys), KEYS_ECHO)) THEN Ran(<<>>, Panicked)
    ELSE run_powershell("SendKeys::SendWait(\"" \o replace_str(keys, "\"", BackTick \o "\"")
                        \o "\"); Write-Output \"SENT_KEYS: "
                        \o SubSeq(keys, 1, Min(Len(keys), KEYS_ECHO)) \o "\"", os)

desktop_type_text(text, os) ==
    IF text = ""
    THEN Ran(<<>>, err("text is required for type_text", safe_verdict))
    ELSE IF ~is_char_boundary(text, Min(Len(text), TEXT_ECHO)) THEN Ran(<<>>, Panicked)
    ELSE run_powershell("Clipboard::SetText(\""
                        \o replace_str(replace_str(text, "\"", BackTick \o "\""), "$", BackTick \o "$")
                        \o "\"); SendKeys::SendWait(\"^v\"); Write-Output \"TYPED: "
                        \o replace_str(SubSeq(text, 1, Min(Len(text), TEXT_ECHO)), "\"", "'")
                        \o "\"", os)

desktop_click(x, y, button, os) ==
    run_powershell("SetCursorPos(" \o ToString(x) \o ", " \o ToString(y)
                   \o "); mouse_event("
                   \o (IF button = "right" THEN "MOUSEEVENTF_RIGHTDOWN"
                       ELSE "MOUSEEVENTF_LEFTDOWN")
                   \o "); Write-Output \"CLICKED: ("
                   \o ToString(x) \o ", " \o ToString(y) \o ") " \o button \o "\"", os)

\* the file name carries the clock, the payload is the base64 text of the file
ScreenshotDir == TempDir \o "forgeai_screenshots"
ScreenshotFile == "screenshot_<millis>.png"

desktop_screenshot(target, os) ==
    Bind(ScreenshotDir \o "\\" \o ScreenshotFile, LAMBDA path :
    Bind(replace_str(path, "\\", "\\\\"), LAMBDA path_str :
    Bind(run_powershell(IF target = "" THEN "CopyFromScreen; Save(\"" \o path_str \o "\")"
                        ELSE "PrintWindow -like '*" \o replace_str(target, "'", "''")
                             \o "*'; Save(\"" \o path_str \o "\")", os), LAMBDA ps :
    Bind(<<Sys("fs::create_dir_all", <<ScreenshotDir>>)>> \o ps.trace, LAMBDA tr :
        IF ps.result = Panicked \/ ~ps.result.success THEN Ran(tr, ps.result)
        ELSE Ran(tr \o <<Sys("fs::read", <<path>>)>>,
                IF os.probe
                THEN ok("{\"output\":\"" \o trim(ps.result.output) \o "\",\"filename\":\""
                        \o ScreenshotFile \o "\",\"image_base64\":\"<base64>\"}",
                        safe_verdict)
                ELSE ps.result)))))

desktop_read_screen(target, os) ==
    Bind(replace_str(ScreenshotDir \o "\\ocr_<millis>.png", "\\", "\\\\"), LAMBDA path_str :
    Bind(desktop_screenshot(target, os), LAMBDA shot :
    Bind(<<Sys("fs::create_dir_all", <<ScreenshotDir>>)>> \o shot.trace, LAMBDA tr :
        IF shot.result = Panicked \/ ~shot.result.success THEN Ran(tr, shot.result)
        ELSE Bind(run_powershell("OcrEngine.RecognizeAsync('" \o path_str \o "')", os),
                  LAMBDA ocr :
                Ran(tr \o ocr.trace,
                    IF ocr.result = Panicked THEN Panicked
                    ELSE ok("screenshot=" \o path_str \o "\ntext:" \o ocr.result.output,
                            safe_verdict))))))

desktop_read_window_text(target, os) ==
    IF target = ""
    THEN Ran(<<>>, err("target is required for read_window_text", safe_verdict))
    ELSE run_powershell("AutomationElement.FindAll -like '*"
                        \o replace_str(target, "'", "''") \o "*'", os)

desktop_get_clipboard(os) == run_powershell("Clipboard::GetText()", os)

\* str::parse::<u64> of the decimal texts the model uses
parse_u64(s) ==
    Bind({n \in 0..MAX_DELAY_MS + 1 : ToString(n) = s}, LAMBDA hits :
        IF hits = {} THEN None ELSE Some(CHOOSE n \in hits : TRUE))

desktop_wait(target, delay) ==
    Bind(IF target /= "" THEN unwrap_or(parse_u64(target), DEFAULT_WAIT_MS)
         ELSE IF delay > 0 THEN delay ELSE DEFAULT_WAIT_MS, LAMBDA ms :
        Ran(<<Sys("thread::sleep", <<Min(ms, MAX_DELAY_MS)>>)>>,
            ok("WAITED: " \o ToString(ms) \o "ms", safe_verdict)))

desktop_action(action, target, text, x, y, button, delay, os) ==
    CASE action = "list_windows" -> desktop_list_windows(os)
      [] action = "focus_window" -> desktop_focus_window(target, os)
      [] action = "open_app" -> desktop_open_app(target, os)
      [] action \in {"send_keys", "key_combo"} -> desktop_send_keys(text, os)
      [] action = "type_text" -> desktop_type_text(text, os)
      [] action = "click" -> desktop_click(x, y, button, os)
      [] action = "screenshot" -> desktop_screenshot(target, os)
      [] action = "read_screen" -> desktop_read_screen(target, os)
      [] action = "read_window_text" -> desktop_read_window_text(target, os)
      [] action = "get_clipboard" -> desktop_get_clipboard(os)
      [] action = "wait" -> desktop_wait(target, delay)
      [] OTHER -> Ran(<<>>, err("Unknown desktop action: " \o action, safe_verdict))

execute_desktop(params, os) ==
    Bind(unwrap_or(as_str(get(params, "action")), ""), LAMBDA action :
    Bind(unwrap_or(as_num(get(params, "delay")), 0), LAMBDA delay :
        IF action = ""
        THEN Ran(<<>>, err("desktop action is required", safe_verdict))
        ELSE Bind(desktop_action(action,
                                 unwrap_or(as_str(get(params, "target")), ""),
                                 unwrap_or(as_str(get(params, "text")), ""),
                                 unwrap_or(as_num(get(params, "x")), 0),
                                 unwrap_or(as_num(get(params, "y")), 0),
                                 unwrap_or(as_str(get(params, "button")), "left"),
                                 delay, os), LAMBDA run :
                Ran((IF delay > 0 /\ action /= "wait"
                     THEN <<Sys("thread::sleep", <<Min(delay, MAX_DELAY_MS)>>)>>
                     ELSE <<>>) \o run.trace, run.result))))

(***************************************************************************)
(* The inputs: the requests a caller can send and the answers of the       *)
(* operating system                                                        *)
(***************************************************************************)
MaxResubmit == 3
MaxFrames == 2

Paths == {
    "C:\\Windows\\System32\\cmd.exe",
    "c:/windows/SYSTEM32/drivers/etc/hosts",
    "C:/Program Files/App/a.dll",
    "C:\\ProgramData\\Microsoft\\x.sys",
    "C:\\EFI",
    "C:\\Users\\Operator\\Documents\\notes.txt",
    "c:/users/operator/AppData/Local/Temp/t.tmp",
    "C:\\Users\\Other\\secret.txt",
    "C:\\WindowsApps.bak\\x.txt",
    "C:\\Users\\..\\Windows\\System32\\x",
    "D:\\Projects\\code.rs",
    "notes.txt" }

Destinations == {
    "C:\\Windows\\evil.dll",
    "C:\\Users\\Operator\\copy.txt",
    "D:/backup/copy.txt" }

Commands == {
    "dir C:\\Users",
    "dir",
    "wmic cpu get name",
    "whoami",
    "format C:",
    "dir C:\\ & format D:",
    "echo hi & rd /s /q C:\\",
    "type a.txt; Remove-Item 'C:\\' -Recurse",
    "dir x & format ",
    "DISKPART",
    "  del /s /q D:\\  ",
    "del somefile.txt",
    "del /q C:\\Windows\\Temp\\x",
    "git status",
    "notepad",
    "taskkill /im notepad.exe",
    "taskkill /F /IM explorer.exe",
    "taskkill /IM svchost.exe /F",
    "taskkill /f /im svchost.exe",
    "Get-Process",
    "rm -rf /",
    "reg delete HKLM\\SAM /f",
    "reg delete HKLM\\SOFTWARE\\Policies\\Microsoft /f",
    "reg add HKLM\\SYSTEM\\CurrentControlSet\\Services\\x /v Start /d 4",
    "path" }

ProcessNames == {
    "svchost.exe", "LSASS", "Explorer.EXE", "csrss.exe.exe", "notepad.exe", "chrome" }

AppNames == { "notepad", "C:\\Windows\\System32\\format.com" }

Urls == { "https://example.org/" }

Contents == { "hello" }

FileActions == {"read_file", "delete_file", "list_dir", "create_dir", "file_exists", "file_info"}

Req(action, path, command, content, process_name, app_name, confirmed) ==
    ActionRequest(action, path, command, content, process_name, app_name, None, confirmed)

\* the requests without their confirmed flag set
BaseRequests ==
    {Req(a, Some(p), None, None, None, None, FALSE) : a \in FileActions, p \in Paths}
    \cup {Req("write_file", Some(p), None, Some(c), None, None, FALSE) :
            p \in Paths, c \in Contents}
    \cup {Req(a, Some(p), None, Some(d), None, None, FALSE) :
            a \in {"move_file", "copy_file"},
            p \in {"C:\\Windows\\System32\\cmd.exe",
                   "C:\\Users\\Operator\\Documents\\notes.txt"},
            d \in Destinations}
    \cup {Req("shell", None, Some(c), None, None, None, FALSE) : c \in Commands}
    \cup {Req("kill_process", None, None, None, Some(n), None, FALSE) : n \in ProcessNames}
    \cup {Req("open_app", None, None, None, None, Some(a), FALSE) : a \in AppNames}
    \cup {Req("open_url", Some(u), None, None, None, None, FALSE) : u \in Urls}
    \cup {Req(a, None, None, None, None, None, FALSE) :
            a \in {"list_processes", "system_info", "disk_usage", "list_dir",
                   "read_file", "write_file", "delete_file", "create_dir", "file_exists",
                   "file_info", "move_file", "copy_file", "shell", "open_app", "open_url",
                   "kill_process", "desktop", "format_disk", ""}}
    \cup {Req("write_file", Some("D:\\Projects\\code.rs"), None, None, None, None, FALSE)}
    \cup {Req(a, Some("C:\\Windows\\System32\\cmd.exe"), None, None, None, None, FALSE) :
            a \in {"write_file", "move_file", "copy_file"}}
    \cup {Req("write_file", None, None, Some("hello"), None, None, FALSE)}

Requests == {[r EXCEPT !.confirmed = c] : r \in BaseRequests, c \in BOOLEAN}

OsAnswers == {
    OsAnswer(TRUE, TRUE, "data", ""),
    OsAnswer(TRUE, FALSE, "", "warning"),
    OsAnswer(FALSE, FALSE, "", "") }

\* a text of n bytes of ASCII
RECURSIVE Fill(_)
Fill(n) ==
    IF n = 0 THEN ""
    ELSE Bind(Fill(n \div 2), LAMBDA half :
            half \o half \o (IF n % 2 = 1 THEN "a" ELSE ""))

\* the texts a file or a command can hold: within the limits, longer than
\* both, and longer with a two-byte character across the limit of read_file
\* or of the shell
LongAscii == Fill(READ_LIMIT + 1)
LongWide == Fill(READ_LIMIT - 1) \o E_ACUTE \o "a"
ShellWide == Fill(SHELL_LIMIT - 1) \o E_ACUTE

TextAnswers == {
    OsAnswer(TRUE, TRUE, "text", ""),
    OsAnswer(TRUE, TRUE, LongAscii, ""),
    OsAnswer(TRUE, TRUE, LongWide, ""),
    OsAnswer(TRUE, TRUE, ShellWide, "") }

\* the requests that return a text of the operating system
TextRequests ==
    {Req("read_file", Some("C:\\Users\\Operator\\Documents\\notes.txt"),
         None, None, None, None, TRUE),
     Req("list_dir", Some("C:\\Users\\Operator\\Documents"), None, None, None, None, TRUE),
     Req("shell", None, Some("whoami"), None, None, None, TRUE),
     Req("kill_process", None, None, None, Some("notepad"), None, TRUE),
     Req("list_processes", None, None, None, None, None, TRUE),
     Req("system_info", None, None, None, None, None, TRUE),
     Req("disk_usage", None, None, None, None, None, TRUE)}

\* every dispatch of the model, computed once
Dispatch == [r \in Requests, os \in OsAnswers |-> execute(r, os)]

TextDispatch == [r \in TextRequests, os \in TextAnswers |-> execute(r, os)]

(***************************************************************************)
(* Frames of the control channel                                           *)
(***************************************************************************)
ActionFrame(request_id, action, params) ==
    JObj([type |-> JStr("action_request"), requestId |-> JStr(request_id),
          action |-> JStr(action), params |-> params])

\* a text frame that is not JSON
Malformed == [t |-> "invalid"]

\* serde_json::from_str on the text of a frame
from_str(text) == IF text.t = "invalid" THEN None ELSE Some(text)

\* the frame that asks for a text of the operating system
TextFrames == {ActionFrame("t1", "desktop", JObj([action |-> JStr("get_clipboard")]))}

\* the text frames the Gateway sends in the model
Frames == {
    ActionFrame("r1", "kill_process",
                JObj([process_name |-> JStr("notepad.exe")])),
    ActionFrame("r2", "kill_process",
                JObj([process_name |-> JStr("notepad.exe"), confirmed |-> JBool(TRUE)])),
    ActionFrame("r3", "kill_process", JObj([process_name |-> JStr("svchost.exe")])),
    ActionFrame("r4", "shell", JObj([command |-> JStr("del somefile.txt")])),
    ActionFrame("r5", "shell", JObj([command |-> JStr("Get-Process"),
                                     confirmed |-> JBool(FALSE)])),
    ActionFrame("r6", "shell", JObj([command |-> JStr("format C:")])),
    ActionFrame("r7", "delete_file",
                JObj([path |-> JStr("C:\\Windows\\System32\\cmd.exe")])),
    ActionFrame("r8", "write_file",
                JObj([path |-> JStr("C:\\Users\\Operator\\Documents\\notes.txt"),
                      content |-> JStr("hello")])),
    ActionFrame("r9", "desktop",
                JObj([action |-> JStr("send_keys"), text |-> JStr("%{F4}")])),
    ActionFrame("r10", "desktop",
                JObj([action |-> JStr("click"), x |-> JNum(10), y |-> JNum(20),
                      delay |-> JNum(5)])),
    ActionFrame("r11", "desktop", JObj([action |-> JStr("erase_disk")])),
    ActionFrame("r12", "list_processes", JStr("not an object")),
    ActionFrame("r14", "format_disk", JObj([path |-> JStr("D:\\")])),
    ActionFrame("r15", "desktop",
                JObj([action |-> JStr("wipe_screen"), delay |-> JNum(3)])),
    JObj([type |-> JStr("action_request"), requestId |-> JStr("r13"),
          action |-> JStr("read_file")]),
    ActionFrame("r16", "desktop", JNull),
    JObj([type |-> JStr("action_request"), requestId |-> JStr("r17"),
          action |-> JStr("list_dir")]),
    JObj([type |-> JStr("health.pong")]),
    JObj([type |-> JStr("chat"), content |-> JStr("hi")]),
    JObj([requestId |-> JStr("r1"), action |-> JStr("kill_process"),
          params |-> JObj([process_name |-> JStr("notepad.exe")])]),
    JObj([type |-> JNull, requestId |-> JStr("r1"), action |-> JStr("kill_process"),
          params |-> JObj([process_name |-> JStr("notepad.exe")])]),
    Malformed }

\* the fields both receive loops read from an action_request frame
frame_request_id(raw) == unwrap_or(as_str(get(raw, "requestId")), "")
frame_action(raw) == unwrap_or(as_str(get(raw, "action")), "")
frame_params(raw) == unwrap_or(get(raw, "params"), JObj(NoKeys))

\* whether the sender of the frame asserted a confirmation in it
frame_confirmed(raw) ==
    Bind(get(frame_params(raw), "confirmed"), LAMBDA c :
        IsSome(c) /\ Unwrap(c).t = "bool" /\ Unwrap(c).v)

\* the ActionRequest both receive loops build from the params
request_of_params(action, params) ==
    ActionRequest(action,
                  as_str(get(params, "path")),
                  as_str(get(params, "command")),
                  as_str(get(params, "content")),
                  as_str(get(params, "process_name")),
                  as_str(get(params, "app_name")),
                  as_str(get(params, "cwd")),
                  TRUE)

action_result_frame(request_id, result) ==
    JObj([type |-> JStr("action_result"), requestId |-> JStr(request_id),
          success |-> JBool(result.success), output |-> JStr(result.output)])

(***************************************************************************)
(* The state machine                                                       *)
(***************************************************************************)
\* One dispatch as the rest of the model sees it:
\*   via        the entry point that called the dispatcher
\*   asserted   whether the caller itself asserted a confirmation
\*   request    the ActionRequest handed to execute
\*   params     the raw params handed to execute_desktop (JNull otherwise)
Dispatched(via, asserted, request, params, ran) ==
    [via |-> via, asserted |-> asserted, request |-> request, params |-> params,
     trace |-> ran.trace, result |-> ran.result]

Last(seq) == seq[Len(seq)]

same_request(a, b) == [a EXCEPT !.confirmed = FALSE] = [b EXCEPT !.confirmed = FALSE]

Init ==
    /\ hist = <<>>
    /\ slots = {}
    /\ outq = <<>>
    /\ wire = <<>>
    /\ GATEWAY_WS_ACTIVE = FALSE
    /\ RECONNECT_NOTIFY = FALSE
    /\ loops = <<>>
    /\ calls = <<>>
    /\ credentials = None
    /\ connection = [state |-> "Disconnected", credentials |-> None, receive |-> "none",
                     pc |-> "idle", creds |-> None, result |-> None, executing |-> None]

\* commands.rs: the execute_action command of the frontend
execute_action(request, os) ==
    /\ hist' = <<Dispatched("execute_action", request.confirmed, request, JNull,
                            IF os \in OsAnswers THEN Dispatch[request, os]
                            ELSE TextDispatch[request, os])>>
    /\ UNCHANGED <<slots, outq, wire>>
    /\ UNCHANGED lifecycle

\* commands.rs: execute_action called again with the request of the dispatch
\* before, its confirmed flag set or not; hist keeps the earlier dispatches
resubmit_action(confirmed, os) ==
    /\ hist /= <<>>
    /\ Len(hist) < MaxResubmit
    /\ Last(hist).via = "execute_action"
    /\ hist' = Append(hist,
                Dispatched("execute_action", confirmed,
                           [Last(hist).request EXCEPT !.confirmed = confirmed], JNull,
                           Dispatch[[Last(hist).request EXCEPT !.confirmed = confirmed], os]))
    /\ UNCHANGED <<slots, outq, wire>>
    /\ UNCHANGED lifecycle

\* commands.rs: the get_system_info command
get_system_info(os) ==
    /\ hist' = <<Dispatched("get_system_info", FALSE,
                    ActionRequest("system_info", None, None, None, None, None, None, FALSE),
                    JNull,
                    Dispatch[ActionRequest("system_info", None, None, None, None, None,
                                           None, FALSE), os])>>
    /\ UNCHANGED <<slots, outq, wire>>
    /\ UNCHANGED lifecycle

\* commands.rs: the check_safety command; it returns a verdict and runs nothing
check_safety_verdict(action, path, command) ==
    IF IsSome(command) THEN check_shell_command(Unwrap(command))
    ELSE IF IsSome(path) THEN check_file_operation(action, Unwrap(path))
    ELSE SafetyVerdict(TRUE, Safe, "No path or command to check", FALSE)

\* the operation kinds and the arguments the frontend asks check_safety about
Operations == {"read", "LIST", "stat", "exists", "delete", "Remove", "rmdir", "write",
               "create", "move", "copy", "rename", "chmod", "delete_file"}

SafetyQueries ==
    {<<action, Some(path), None>> : action \in Operations, path \in Paths}
    \cup {<<"shell", None, Some(command)>> : command \in Commands}
    \cup {<<"write", Some("C:\\Windows\\x"), Some("whoami")>>,
          <<"delete", None, None>>}

\* every verdict the frontend can ask for in the model, computed once
Classified == [q \in SafetyQueries |-> check_safety_verdict(q[1], q[2], q[3])]

check_safety(action, path, command) ==
    /\ hist' = <<[via |-> "check_safety", action |-> action, path |-> path,
                  command |-> command,
                  verdict |-> Classified[<<action, path, command>>]]>>
    /\ UNCHANGED <<slots, outq, wire>>
    /\ UNCHANGED lifecycle

InFlight ==
    Cardinality(slots) + Len(outq) + Len(wire)
        + (IF connection.executing = None THEN 0 ELSE 1)

\* the slot gateway_ws_loop spawns for an action_request frame; tx is the
\* clone of the sender the blocking thread holds: "open" while the receiver
\* of the connection the frame arrived on lives, "closed" once it is dropped
slot_of(raw) ==
    [request_id |-> frame_request_id(raw), action |-> frame_action(raw),
     params |-> frame_params(raw), asserted |-> frame_confirmed(raw), tx |-> "open"]

\* the first gateway_ws_loop task is inside its receive loop; slots, outq
\* and wire are the blocking threads, the queue and the socket of that task
Established == loops /= <<>> /\ loops[1].pc \in {"connected", "closing"}

\* the send task of the first gateway_ws_loop task is in its recv loop
Sending == loops /= <<>> /\ loops[1].sender = "running"

is_action_request(raw) ==
    IsSome(from_str(raw)) /\ as_str(get(Unwrap(from_str(raw)), "type")) = Some("action_request")

\* a receive loop that takes every frame with an action for a request
ws_receive_untyped(raw) ==
    /\ Established
    /\ InFlight < MaxFrames
    /\ is_action_request(raw) => slot_of(raw) \notin {[slot EXCEPT !.tx = "open"] : slot \in slots}
    /\ IF IsSome(from_str(raw)) /\ IsSome(get(raw, "action"))
       THEN slots' = slots \cup {slot_of(raw)}
       ELSE slots' = slots
    /\ UNCHANGED <<hist, outq, wire>>
    /\ UNCHANGED lifecycle

\* commands.rs gateway_ws_loop: a text frame arrives; a frame that is not
\* JSON is logged and skipped, an action_request is handed to a blocking
\* thread of its own, every other frame is logged
\* (the Gateway does not send a request again while it is still executing)
ws_receive(raw) ==
    /\ Established
    /\ InFlight < MaxFrames
    /\ is_action_request(raw) => slot_of(raw) \notin {[slot EXCEPT !.tx = "open"] : slot \in slots}
    /\ IF IsSome(from_str(raw))
          /\ unwrap_or(as_str(get(Unwrap(from_str(raw)), "type")), "") = "action_request"
       THEN slots' = slots \cup {slot_of(raw)}
       ELSE slots' = slots
    /\ UNCHANGED <<hist, outq, wire>>
    /\ UNCHANGED lifecycle

\* commands.rs gateway_ws_loop: what the blocking thread of one request runs
ws_dispatch(slot, os) ==
    Bind(request_of_params(slot.action, slot.params), LAMBDA request :
        IF slot.action = "desktop"
        THEN Dispatched("gateway_ws_loop", slot.asserted, request, slot.params,
                        execute_desktop(slot.params, os))
        ELSE Dispatched("gateway_ws_loop", slot.asserted, request, JNull,
                        execute(request, os)))

\* connection.rs GatewayConnection::connect: what the receive task runs inline
connect_dispatch(raw, os) ==
    Bind(request_of_params(frame_action(raw), frame_params(raw)), LAMBDA request :
        Dispatched("connect", frame_confirmed(raw), request, JNull,
                   execute(request, os)))

\* every dispatch of the control channel in the model, computed once
WsDispatch ==
    [slot \in {slot_of(raw) : raw \in {f \in Frames : is_action_request(f)}},
     os \in OsAnswers |-> ws_dispatch(slot, os)]

WsTextDispatch ==
    [slot \in {slot_of(raw) : raw \in TextFrames}, os \in TextAnswers |->
        ws_dispatch(slot, os)]

\* what the blocking thread of a request makes of the answers of the system
ws_ran(slot, os) ==
    IF os \in OsAnswers THEN WsDispatch[[slot EXCEPT !.tx = "open"], os]
    ELSE WsTextDispatch[[slot EXCEPT !.tx = "open"], os]

ConnectDispatch ==
    [raw \in {f \in Frames : is_action_request(f)}, os \in OsAnswers |->
        connect_dispatch(raw, os)]

\* a blocking thread that answers under the id of whichever request is
\* executing
ws_slot_run_any_id(slot, os) ==
    /\ slot \in slots
    /\ slots' = slots \ {slot}
    /\ hist' = <<WsDispatch[[slot EXCEPT !.tx = "open"], os]>>
    /\ \E other \in slots :
          outq' = IF slot.tx = "open"
                  THEN Append(outq, action_result_frame(other.request_id,
                                  WsDispatch[[slot EXCEPT !.tx = "open"], os].result))
                  ELSE outq
    /\ UNCHANGED wire
    /\ UNCHANGED lifecycle

\* blocking threads that finish in one fixed order of their requests
ws_slot_run_in_fixed_order(slot, os) ==
    /\ slot \in slots
    /\ slot = CHOOSE first \in slots : TRUE
    /\ slots' = slots \ {slot}
    /\ hist' = <<WsDispatch[[slot EXCEPT !.tx = "open"], os]>>
    /\ outq' = IF slot.tx = "open"
               THEN Append(outq, action_result_frame(slot.request_id,
                               WsDispatch[[slot EXCEPT !.tx = "open"], os].result))
               ELSE outq
    /\ UNCHANGED wire
    /\ UNCHANGED lifecycle

\* commands.rs gateway_ws_loop: the blocking thread of one request runs the
\* action and sends the action_result frame into the queue it holds a
\* sender of; the send fails, and is logged, when the receiver is gone, and
\* a thread that panicked in the action sends nothing
ws_slot_run(slot, os) ==
    /\ slot \in slots
    /\ slots' = slots \ {slot}
    /\ hist' = <<ws_ran(slot, os)>>
    /\ outq' = IF slot.tx = "open" /\ ws_ran(slot, os).result /= Panicked
               THEN Append(outq, action_result_frame(slot.request_id,
                                                     ws_ran(slot, os).result))
               ELSE outq
    /\ UNCHANGED wire
    /\ UNCHANGED lifecycle

\* connection.rs GatewayConnection::connect: the receive task reads a text
\* frame; with an action_request it calls execute itself, any other frame
\* is forwarded to the application
connect_receive(raw) ==
    /\ connection.receive = "running"
    /\ connection.executing = None
    /\ InFlight < MaxFrames
    /\ connection' = IF is_action_request(raw)
                     THEN [connection EXCEPT !.executing = Some(raw)]
                     ELSE connection
    /\ UNCHANGED <<hist, slots, outq, wire>>
    /\ UNCHANGED <<GATEWAY_WS_ACTIVE, RECONNECT_NOTIFY, loops, calls, credentials>>

\* connection.rs GatewayConnection::connect: execute returns inside the
\* receive task, the result is queued and the task reads on
connect_execute(os) ==
    /\ connection.executing /= None
    /\ hist' = <<ConnectDispatch[Unwrap(connection.executing), os]>>
    /\ outq' = Append(outq, action_result_frame(
                                frame_request_id(Unwrap(connection.executing)),
                                ConnectDispatch[Unwrap(connection.executing), os].result))
    /\ connection' = [connection EXCEPT !.executing = None]
    /\ UNCHANGED <<slots, wire>>
    /\ UNCHANGED <<GATEWAY_WS_ACTIVE, RECONNECT_NOTIFY, loops, calls, credentials>>

\* a send task that writes the newest queued frame first
send_task_newest_first ==
    /\ Sending
    /\ outq /= <<>>
    /\ wire' = Append(wire, outq[Len(outq)])
    /\ outq' = SubSeq(outq, 1, Len(outq) - 1)
    /\ UNCHANGED <<hist, slots>>
    /\ UNCHANGED lifecycle

\* the send task of the connection: the next queued frame goes on the wire
send_task ==
    /\ Sending
    /\ outq /= <<>>
    /\ wire' = Append(wire, Head(outq))
    /\ outq' = Tail(outq)
    /\ UNCHANGED <<hist, slots>>
    /\ UNCHANGED lifecycle

\* the dispatcher and the classifier called by the frontend
Next ==
    \/ \E request \in Requests, os \in OsAnswers : execute_action(request, os)
    \/ \E os \in OsAnswers : get_system_info(os)
    \/ \E q \in SafetyQueries : check_safety(q[1], q[2], q[3])

Spec == Init /\ [][Next]_vars

\* a request that is submitted again and again
ResubmitRequests ==
    {r \in Requests :
        \/ r.action = "kill_process"
        \/ r.action = "shell" /\ r.command \in {None, Some("del somefile.txt"),
                                                 Some("Get-Process"), Some("git status"),
                                                 Some("format C:")}
        \/ r.action \in {"delete_file", "write_file"}
              /\ r.path \in {Some("C:\\Users\\Operator\\Documents\\notes.txt"),
                             Some("C:\\Windows\\System32\\cmd.exe")}}

NextResubmit ==
    \/ \E request \in ResubmitRequests, os \in OsAnswers : execute_action(request, os)
    \/ \E confirmed \in BOOLEAN, os \in OsAnswers : resubmit_action(confirmed, os)

SpecResubmit == Init /\ [][NextResubmit]_vars

(***************************************************************************)
(* The life cycle of the control channel (commands.rs)                     *)
(***************************************************************************)
MaxCalls == 3

channel == <<hist, slots, outq, wire, connection>>

\* the credentials a pairing can leave in the secret store
Pairings == {"companion-1", "companion-2"}

\* commands.rs pair_with_gateway: a pairing code is redeemed and the
\* credentials the Gateway answered with are saved
pair_with_gateway(creds) ==
    /\ credentials /= Some(creds)
    /\ credentials' = Some(creds)
    /\ UNCHANGED <<GATEWAY_WS_ACTIVE, RECONNECT_NOTIFY, loops, calls, channel>>

\* commands.rs disconnect: the stored credentials are deleted; no task is
\* signalled
disconnect ==
    /\ credentials /= None
    /\ credentials' = None
    /\ UNCHANGED <<GATEWAY_WS_ACTIVE, RECONNECT_NOTIFY, loops, calls, channel>>

\* one gateway_ws_loop task: where it is, and the credentials it loaded last
\* and its send task: "none", "running", or "exited" after a failed write
Loop(pc, creds) == [pc |-> pc, creds |-> creds, sender |-> "none"]

\* one call of a command: the command, where the call is, and what the swap
\* of the flag returned to it (FALSE until the swap)
Call(command, pc, found) == [command |-> command, pc |-> pc, found |-> found]

\* where a call is after the swap in spawn_gateway_ws returned found
after_swap(call, found) ==
    [call EXCEPT !.pc = IF found THEN "returned" ELSE "spawning", !.found = found]

\* spawn_gateway_ws swapping the flag without looking at what it held
spawn_gateway_ws_unguarded(command) ==
    /\ Len(calls) < MaxCalls
    /\ calls' = Append(calls, Call(command, "spawning", FALSE))
    /\ GATEWAY_WS_ACTIVE' = TRUE
    /\ UNCHANGED <<RECONNECT_NOTIFY, loops, credentials, channel>>

\* spawn_gateway_ws, called by the setup of the application or through
\* connect_gateway_ws: the swap of the flag, and the early return when the
\* flag was set
spawn_gateway_ws(command) ==
    /\ Len(calls) < MaxCalls
    /\ calls' = Append(calls, after_swap(Call(command, "called", FALSE), GATEWAY_WS_ACTIVE))
    /\ GATEWAY_WS_ACTIVE' = TRUE
    /\ UNCHANGED <<RECONNECT_NOTIFY, loops, credentials, channel>>

\* spawn_gateway_ws past the swap: the task running gateway_ws_loop is
\* spawned; the task starts with its two seconds of sleep. gateway_ws_loop
\* is a loop without an exit, so the store of false after it is never
\* reached and a spawned task runs for good.
spawn_task(i) ==
    /\ calls[i].pc = "spawning"
    /\ loops' = Append(loops, Loop("init", None))
    /\ calls' = [calls EXCEPT ![i].pc = "returned"]
    /\ UNCHANGED <<GATEWAY_WS_ACTIVE, RECONNECT_NOTIFY, credentials, channel>>

\* the tasks waiting in notified() of the receive loop
Waiters == {k \in 1..Len(loops) : loops[k].pc = "connected"}

\* Notify::notify_one on the tasks as they are in base: one task waiting in
\* notified() is woken, or a permit is left when no task waits
notify_one(base) ==
    IF \A k \in 1..Len(base) : base[k].pc /= "connected"
    THEN RECONNECT_NOTIFY' = TRUE /\ loops' = base
    ELSE /\ \E k \in 1..Len(base) :
               /\ base[k].pc = "connected"
               /\ loops' = [base EXCEPT ![k].pc = "closing"]
         /\ UNCHANGED RECONNECT_NOTIFY

\* force_reconnect_gateway_ws up to its sleep: the reconnect is signalled
force_reconnect_notify ==
    /\ Len(calls) < MaxCalls
    /\ calls' = Append(calls, Call("force_reconnect_gateway_ws", "sleeping", FALSE))
    /\ notify_one(loops)
    /\ UNCHANGED <<GATEWAY_WS_ACTIVE, credentials, channel>>

\* force_reconnect_gateway_ws after its sleep: the flag is stored false
force_reconnect_store(i) ==
    /\ calls[i].pc = "sleeping"
    /\ GATEWAY_WS_ACTIVE' = FALSE
    /\ calls' = [calls EXCEPT ![i].pc = "stored"]
    /\ UNCHANGED <<RECONNECT_NOTIFY, loops, credentials, channel>>

\* force_reconnect_gateway_ws calling spawn_gateway_ws: the swap
force_reconnect_spawn(i) ==
    /\ calls[i].pc = "stored"
    /\ calls' = [calls EXCEPT ![i] = after_swap(calls[i], GATEWAY_WS_ACTIVE)]
    /\ GATEWAY_WS_ACTIVE' = TRUE
    /\ UNCHANGED <<RECONNECT_NOTIFY, loops, credentials, channel>>

\* gateway_ws_loop keeping the credentials of its first load
load_credentials_once(k) ==
    /\ loops[k].pc \in {"init", "no_credentials", "retry"}
    /\ loops' = [loops EXCEPT ![k] =
                    IF IsSome(loops[k].creds) THEN Loop("connecting", loops[k].creds)
                    ELSE IF IsSome(credentials) THEN Loop("connecting", credentials)
                    ELSE Loop("no_credentials", None)]
    /\ UNCHANGED <<GATEWAY_WS_ACTIVE, RECONNECT_NOTIFY, calls, credentials, channel>>

\* gateway_ws_loop connecting with whatever it loaded, credentials or none
load_credentials_unchecked(k) ==
    /\ loops[k].pc \in {"init", "no_credentials", "retry"}
    /\ loops' = [loops EXCEPT ![k] = Loop("connecting", credentials)]
    /\ UNCHANGED <<GATEWAY_WS_ACTIVE, RECONNECT_NOTIFY, calls, credentials, channel>>

\* gateway_ws_loop after one of its sleeps: the credentials are loaded from
\* the store and the connection attempt starts with them; without
\* credentials the task sleeps ten seconds and loads them again
load_credentials(k) ==
    /\ loops[k].pc \in {"init", "no_credentials", "retry"}
    /\ loops' = [loops EXCEPT ![k] =
                    IF IsSome(credentials) THEN Loop("connecting", credentials)
                    ELSE Loop("no_credentials", None)]
    /\ UNCHANGED <<GATEWAY_WS_ACTIVE, RECONNECT_NOTIFY, calls, credentials, channel>>

\* a gateway_ws_loop that returns after a failed attempt
connect_async_giving_up(k, connected) ==
    /\ loops[k].pc = "connecting"
    /\ loops' = [loops EXCEPT ![k].pc = IF connected THEN "connected" ELSE "returned",
                              ![k].sender = IF connected THEN "running" ELSE "none"]
    /\ UNCHANGED <<GATEWAY_WS_ACTIVE, RECONNECT_NOTIFY, calls, credentials, channel>>

\* gateway_ws_loop: connect_async returns; after a failure the task sleeps
\* five seconds and starts over, after a success the send task is spawned
\* and the task enters its receive loop
connect_async(k, connected) ==
    /\ loops[k].pc = "connecting"
    /\ loops' = [loops EXCEPT ![k].pc = IF connected THEN "connected" ELSE "retry",
                              ![k].sender = IF connected THEN "running" ELSE "none"]
    /\ UNCHANGED <<GATEWAY_WS_ACTIVE, RECONNECT_NOTIFY, calls, credentials, channel>>

\* the receiver of the queue is dropped: the senders the blocking threads
\* hold have nothing to send to any more
rx_dropped == {[slot EXCEPT !.tx = "closed"] : slot \in slots}

\* gateway_ws_loop past its receive loop: send_handle.abort() ends the send
\* task of task k; the frames still queued are dropped with the receiver
send_handle_abort(k) ==
    IF k = 1
    THEN slots' = rx_dropped /\ outq' = <<>> /\ wire' = <<>>
    ELSE UNCHANGED <<slots, outq, wire>>

\* gateway_ws_loop: the receive loop ends on a Close frame, a read error or
\* the end of the stream; the send task is aborted and the task sleeps five
\* seconds. A task that was woken by notify_one and leaves through this
\* branch of the select drops its Notified future, which passes the
\* notification on.
connection_lost(k) ==
    /\ loops[k].pc \in {"connected", "closing"}
    /\ IF loops[k].pc = "closing"
       THEN notify_one([loops EXCEPT ![k].pc = "retry", ![k].sender = "none"])
       ELSE /\ loops' = [loops EXCEPT ![k].pc = "retry", ![k].sender = "none"]
            /\ UNCHANGED RECONNECT_NOTIFY
    /\ send_handle_abort(k)
    /\ UNCHANGED <<GATEWAY_WS_ACTIVE, calls, credentials, hist, connection>>

\* gateway_ws_loop: notified() completes, either woken by notify_one or by
\* taking the permit; the connection is closed and the task sleeps five
\* seconds before it connects again
reconnect_notified(k) ==
    /\ \/ loops[k].pc = "closing" /\ UNCHANGED RECONNECT_NOTIFY
       \/ loops[k].pc = "connected" /\ RECONNECT_NOTIFY /\ RECONNECT_NOTIFY' = FALSE
    /\ loops' = [loops EXCEPT ![k].pc = "retry", ![k].sender = "none"]
    /\ send_handle_abort(k)
    /\ UNCHANGED <<GATEWAY_WS_ACTIVE, calls, credentials, hist, connection>>

HEALTH_PING == JObj([type |-> JStr("health.ping"), id |-> JStr("keepalive")])

\* the keepalive frames of the connection, queued or written
Pings ==
    Cardinality({i \in 1..Len(outq) : outq[i] = HEALTH_PING})
        + Cardinality({i \in 1..Len(wire) : wire[i] = HEALTH_PING})

PONG == JObj([type |-> JStr("pong")])

\* a tick that ignores the failure of the send, as the pong reply does
keepalive_tick_ignoring_failure ==
    /\ Established
    /\ IF Sending
       THEN Pings < MaxFrames /\ outq' = Append(outq, HEALTH_PING)
       ELSE outq' = outq
    /\ UNCHANGED <<slots, wire, loops, RECONNECT_NOTIFY>>
    /\ UNCHANGED <<GATEWAY_WS_ACTIVE, calls, credentials, hist, connection>>

\* gateway_ws_loop: the ping interval ticks; the keepalive frame is queued,
\* and when the queue is closed the receive loop ends
keepalive_tick ==
    /\ Established
    /\ IF Sending
       THEN /\ Pings < MaxFrames
            /\ outq' = Append(outq, HEALTH_PING)
            /\ UNCHANGED <<slots, wire, loops, RECONNECT_NOTIFY>>
       ELSE /\ IF loops[1].pc = "closing"
               THEN notify_one([loops EXCEPT ![1].pc = "retry", ![1].sender = "none"])
               ELSE /\ loops' = [loops EXCEPT ![1].pc = "retry", ![1].sender = "none"]
                    /\ UNCHANGED RECONNECT_NOTIFY
            /\ send_handle_abort(1)
    /\ UNCHANGED <<GATEWAY_WS_ACTIVE, calls, credentials, hist, connection>>

\* gateway_ws_loop: a Ping message arrives; the pong frame is queued and a
\* failure of the send is ignored
ws_ping ==
    /\ Established
    /\ InFlight < MaxFrames
    /\ outq' = IF Sending THEN Append(outq, PONG) ELSE outq
    /\ UNCHANGED <<hist, slots, wire>>
    /\ UNCHANGED lifecycle

\* the send task: the write of the next frame fails, the task leaves its
\* loop and drops the receiver of the queue
send_task_fails ==
    /\ Sending
    /\ outq /= <<>>
    /\ loops' = [loops EXCEPT ![1].sender = "exited"]
    /\ slots' = rx_dropped
    /\ outq' = <<>>
    /\ UNCHANGED <<hist, wire>>
    /\ UNCHANGED <<GATEWAY_WS_ACTIVE, RECONNECT_NOTIFY, calls, credentials, connection>>

(***************************************************************************)
(* The GatewayConnection object (connection.rs)                            *)
(*   state        the ConnectionState                                      *)
(*   credentials  the credentials the object holds                         *)
(*   receive      the receive task: "none", "running" or "ended"           *)
(*   pc           "idle", or "spawned" while connect has spawned its tasks *)
(*                and has not set the state yet                            *)
(*   creds        the credentials the last connection was opened with      *)
(*   result       what the last call of pair or connect returned           *)
(***************************************************************************)
NO_CREDENTIALS == "No credentials - please pair first"

\* GatewayConnection::pair: the pairing code is redeemed; the credentials
\* are saved and kept, or the call fails before or after the answer
pair(creds, outcome) ==
    /\ connection.pc = "idle"
    /\ CASE outcome = "paired" ->
              /\ credentials' = Some(creds)
              /\ connection' = [connection EXCEPT !.state = "Authenticated",
                                                  !.credentials = Some(creds),
                                                  !.result = Some("Ok")]
         [] outcome = "refused" ->
              /\ connection' = [connection EXCEPT !.state = "Error",
                                                  !.result = Some("Pairing failed")]
              /\ UNCHANGED credentials
         [] OTHER ->
              /\ connection' = [connection EXCEPT !.state = "Connecting",
                                                  !.result = Some("Connection failed")]
              /\ UNCHANGED credentials
    /\ UNCHANGED <<GATEWAY_WS_ACTIVE, RECONNECT_NOTIFY, loops, calls, hist, slots, outq, wire>>

\* the credentials connect goes on with: the ones the object holds, else
\* the ones in the store
connect_credentials ==
    IF IsSome(connection.credentials) THEN connection.credentials ELSE credentials

\* GatewayConnection::connect going on without credentials
connect_unchecked(accepted) ==
    /\ connection.pc = "idle"
    /\ connection' = [connection EXCEPT !.state = "Connecting", !.receive = "running",
                                        !.pc = "spawned"]
    /\ UNCHANGED <<GATEWAY_WS_ACTIVE, RECONNECT_NOTIFY, loops, calls, credentials,
                   hist, slots, outq, wire>>

\* GatewayConnection::connect up to the spawn of its two tasks: without
\* credentials it returns at once; else the state is Connecting, and the
\* call returns when connect_async fails
connect(accepted) ==
    /\ connection.pc = "idle"
    /\ connection' =
          IF ~IsSome(connect_credentials)
          THEN [connection EXCEPT !.result = Some(NO_CREDENTIALS)]
          ELSE IF ~accepted
          THEN [connection EXCEPT !.state = "Connecting",
                                  !.result = Some("WebSocket connection failed")]
          ELSE [connection EXCEPT !.state = "Connecting", !.receive = "running",
                                  !.pc = "spawned", !.creds = connect_credentials]
    /\ UNCHANGED <<GATEWAY_WS_ACTIVE, RECONNECT_NOTIFY, loops, calls, credentials,
                   hist, slots, outq, wire>>

\* GatewayConnection::connect after the spawn of its tasks: the state is
\* set to Connected, the credentials are kept and the call returns
connect_return ==
    /\ connection.pc = "spawned"
    /\ connection' = [connection EXCEPT !.state = "Connected", !.pc = "idle",
                                        !.credentials = connection.creds,
                                        !.result = Some("Ok")]
    /\ UNCHANGED <<GATEWAY_WS_ACTIVE, RECONNECT_NOTIFY, loops, calls, credentials,
                   hist, slots, outq, wire>>

\* the receive task of connect reads a Close frame: the state is set to
\* Reconnecting and the task ends
receive_close ==
    /\ connection.receive = "running"
    /\ connection.executing = None
    /\ connection' = [connection EXCEPT !.state = "Reconnecting", !.receive = "ended"]
    /\ UNCHANGED <<GATEWAY_WS_ACTIVE, RECONNECT_NOTIFY, loops, calls, credentials,
                   hist, slots, outq, wire>>

\* the receive task of connect reads an error or the end of the stream: the
\* while-let loop ends and so does the task
receive_end ==
    /\ connection.receive = "running"
    /\ connection.executing = None
    /\ connection' = [connection EXCEPT !.receive = "ended"]
    /\ UNCHANGED <<GATEWAY_WS_ACTIVE, RECONNECT_NOTIFY, loops, calls, credentials,
                   hist, slots, outq, wire>>

\* the control channel and the connection object, each started on its own
NextConnect ==
    \/ spawn_gateway_ws("spawn_gateway_ws")
    \/ \E i \in 1..Len(calls) : spawn_task(i)
    \/ \E k \in 1..Len(loops) : load_credentials(k)
    \/ \E k \in 1..Len(loops), connected \in BOOLEAN : connect_async(k, connected)
    \/ \E k \in 1..Len(loops) : connection_lost(k)
    \/ \E creds \in Pairings : pair_with_gateway(creds)
    \/ disconnect
    \/ \E creds \in Pairings, outcome \in {"paired", "refused", "unreachable"} :
          pair(creds, outcome)
    \/ \E accepted \in BOOLEAN : connect(accepted)
    \/ connect_return
    \/ receive_close
    \/ receive_end

SpecConnect == Init /\ [][NextConnect]_vars

\* the state with the first gateway_ws_loop task inside its receive loop
\* and the receive task of the connection object running
InitGateway ==
    /\ hist = <<>>
    /\ slots = {}
    /\ outq = <<>>
    /\ wire = <<>>
    /\ GATEWAY_WS_ACTIVE = TRUE
    /\ RECONNECT_NOTIFY = FALSE
    /\ loops = <<[Loop("connected", Some("companion-1")) EXCEPT !.sender = "running"]>>
    /\ calls = <<Call("spawn_gateway_ws", "returned", FALSE)>>
    /\ credentials = Some("companion-1")
    /\ connection = [state |-> "Connected", credentials |-> Some("companion-1"),
                     receive |-> "running", pc |-> "idle",
                     creds |-> Some("companion-1"), result |-> Some("Ok"),
                     executing |-> None]

\* the frames of the channel of one connection
ChannelFrames ==
    {f \in Frames : frame_request_id(f) \in {"r1", "r6", "r13"} \/ ~is_action_request(f)}

\* the frames the receive task of the connection object reads
ConnectFrames ==
    {f \in Frames : frame_request_id(f) \in {"r1", "r14"} \/ ~is_action_request(f)}

\* the dispatcher called by the control channel
NextGateway ==
    \/ \E raw \in Frames : ws_receive(raw)
    \/ \E slot \in slots, os \in OsAnswers : ws_slot_run(slot, os)
    \/ \E raw \in ConnectFrames : connect_receive(raw)
    \/ \E os \in OsAnswers : connect_execute(os)
    \/ send_task

SpecGateway == InitGateway /\ [][NextGateway]_vars

\* the dispatcher with texts of every size, called by the frontend and by the
\* control channel
NextText ==
    \/ \E request \in TextRequests, os \in TextAnswers : execute_action(request, os)
    \/ \E raw \in TextFrames : ws_receive(raw)
    \/ \E slot \in slots, os \in TextAnswers : ws_slot_run(slot, os)
    \/ send_task

SpecText == InitGateway /\ [][NextText]_vars

\* the channel of the first gateway_ws_loop task from its first connection on
NextChannel ==
    \/ \E raw \in ChannelFrames : ws_receive(raw)
    \/ \E slot \in slots, os \in OsAnswers : ws_slot_run(slot, os)
    \/ send_task
    \/ send_task_fails
    \/ keepalive_tick
    \/ ws_ping
    \/ connection_lost(1)
    \/ load_credentials(1)
    \/ \E connected \in BOOLEAN : connect_async(1, connected)

SpecChannel == InitGateway /\ [][NextChannel]_vars

\* the state with the one gateway_ws_loop task spawned by the setup of the
\* application, before anything is paired
InitRecover ==
    /\ hist = <<>>
    /\ slots = {}
    /\ outq = <<>>
    /\ wire = <<>>
    /\ GATEWAY_WS_ACTIVE = TRUE
    /\ RECONNECT_NOTIFY = FALSE
    /\ loops = <<Loop("init", None)>>
    /\ calls = <<Call("spawn_gateway_ws", "returned", FALSE)>>
    /\ credentials = None
    /\ connection = [state |-> "Disconnected", credentials |-> None, receive |-> "none",
                     pc |-> "idle", creds |-> None, result |-> None, executing |-> None]

\* what the task does by itself
LoopStep ==
    \/ load_credentials(1)
    \/ \E connected \in BOOLEAN : connect_async(1, connected)
    \/ keepalive_tick
    \/ send_task

\* what the user, the Gateway and the network do to it
NextRecover ==
    \/ LoopStep
    \/ \E creds \in Pairings : pair_with_gateway(creds)
    \/ disconnect
    \/ connection_lost(1)
    \/ send_task_fails
    \/ ws_ping

\* the timers of the task fire, connect_async returns and the send task
\* runs: the runtime schedules whatever the task can do. Nothing is
\* demanded of the user, the Gateway or the network.
SpecRecover ==
    /\ InitRecover
    /\ [][NextRecover]_vars
    /\ WF_vars(load_credentials(1))
    /\ WF_vars(\E connected \in BOOLEAN : connect_async(1, connected))
    /\ WF_vars(keepalive_tick)
    /\ WF_vars(send_task)

\* the control channel started any number of times
NextStart ==
    \/ \E command \in {"spawn_gateway_ws", "connect_gateway_ws"} :
          spawn_gateway_ws(command)
    \/ \E i \in 1..Len(calls) : spawn_task(i)
    \/ \E k \in 1..Len(loops) : load_credentials(k)
    \/ \E k \in 1..Len(loops), connected \in BOOLEAN : connect_async(k, connected)
    \/ \E k \in 1..Len(loops) : connection_lost(k)
    \/ \E creds \in Pairings : pair_with_gateway(creds)
    \/ disconnect

SpecStart == Init /\ [][NextStart]_vars

\* the control channel started and force-reconnected any number of times
NextLifecycle ==
    \/ \E command \in {"spawn_gateway_ws", "connect_gateway_ws"} :
          spawn_gateway_ws(command)
    \/ \E i \in 1..Len(calls) : spawn_task(i)
    \/ force_reconnect_notify
    \/ \E i \in 1..Len(calls) : force_reconnect_store(i)
    \/ \E i \in 1..Len(calls) : force_reconnect_spawn(i)
    \/ \E k \in 1..Len(loops) : load_credentials(k)
    \/ \E k \in 1..Len(loops), connected \in BOOLEAN : connect_async(k, connected)
    \/ \E k \in 1..Len(loops) : connection_lost(k)
    \/ \E k \in 1..Len(loops) : reconnect_notified(k)
    \/ \E creds \in Pairings : pair_with_gateway(creds)
    \/ disconnect

SpecLifecycle == Init /\ [][NextLifecycle]_vars

(***************************************************************************)
(* Properties                                                              *)
(***************************************************************************)
IsDispatch(h) == h.via /= "check_safety"

\* the positions of a dispatch's trace where the classifier was asked, and
\* those where a system operation was invoked
Checks(d) == {i \in 1..Len(d.trace) : d.trace[i].ev = "check"}
SysEvents(d) == {i \in 1..Len(d.trace) : d.trace[i].ev = "sys"}

Denied(d) == {i \in Checks(d) : ~d.trace[i].verdict.allowed}
Gating(d) == {i \in Checks(d) : /\ d.trace[i].verdict.allowed
                                /\ d.trace[i].verdict.requires_confirmation}

\* every verdict a history entry holds
VerdictsOf(h) ==
    IF IsDispatch(h)
    THEN {h.trace[i].verdict : i \in Checks(h)} \cup {h.result.safety}
    ELSE {h.verdict}

Entries == {hist[i] : i \in 1..Len(hist)}
Dispatches == {h \in Entries : IsDispatch(h)}
Queries == {h \in Entries : ~IsDispatch(h)}

\* C1: whenever the classifier denies a request handed to execute (or the
\* dispatcher itself builds a verdict that does not allow), the result has
\* success = false, carries the denying verdict, and no system operation
\* was invoked - whatever the action and the confirmed flag.
C1_DeniedIsNeverPerformed ==
    \A d \in Dispatches :
        /\ Denied(d) /= {} =>
              /\ ~d.result.success
              /\ \E i \in Denied(d) : d.result.safety = d.trace[i].verdict
              /\ SysEvents(d) = {}
        /\ ~d.result.safety.allowed =>
              /\ ~d.result.success
              /\ SysEvents(d) = {}

C1_Witness ==
    \E d \in Dispatches :
        /\ d.request.action = "delete_file"
        /\ d.request.path = Some("C:\\Windows\\System32\\cmd.exe")
        /\ d.request.confirmed
        /\ Denied(d) /= {}
        /\ d.result.safety.risk = Blocked
        /\ SysEvents(d) = {}

\* C2: an action_request frame of the control channel whose verdict requires
\* confirmation is performed only if the frame itself asserts a confirmation;
\* without one the result is the needs-confirmation result and no system
\* operation is invoked.
C2_GatewayAsksForConfirmation ==
    \A d \in Dispatches :
        (d.via \in {"gateway_ws_loop", "connect"} /\ ~d.asserted) =>
            \A i \in Gating(d) :
                /\ SysEvents(d) = {}
                /\ d.result = needs_confirm(d.trace[i].verdict)

\* C3: every action with a side effect asks the classifier before its first
\* system operation, and the operation is invoked only under a verdict that
\* allows it.
SideEffectActions ==
    {"write_file", "delete_file", "create_dir", "move_file", "copy_file", "shell",
     "open_app", "open_url", "kill_process"}

SideEffectDesktopActions == {"open_app", "focus_window", "send_keys", "type_text", "click"}

HasSideEffect(d) ==
    \/ d.request.action \in SideEffectActions
    \/ /\ d.request.action = "desktop"
       /\ unwrap_or(as_str(get(d.params, "action")), "") \in SideEffectDesktopActions

C3_ClassifierBeforeEverySideEffect ==
    \A d \in Dispatches :
        HasSideEffect(d) =>
            \A i \in SysEvents(d) :
                \E j \in Checks(d) : j < i /\ d.trace[j].verdict.allowed

\* the path, in any letter case and with either slash, is a protected
\* directory or lies below one
UnderProtectedRoot(path) ==
    \E i \in 1..Len(PROTECTED_DIRS) :
        \E n \in {Len(PROTECTED_DIRS[i])} :
            /\ Len(path) >= n
            /\ \A k \in 1..n :
                  \/ lower_char(CharAt(path, k)) = lower_char(CharAt(PROTECTED_DIRS[i], k))
                  \/ CharAt(path, k) = "/" /\ CharAt(PROTECTED_DIRS[i], k) = "\\"
            /\ Len(path) > n => CharAt(path, n + 1) \in {"/", "\\"}

ReadKinds == {"read", "list", "stat", "exists"}

PathActions == {"write_file", "delete_file", "create_dir"}

\* C4 as stated: a path under a protected root is Blocked for every
\* operation kind, the read kinds included.
C4_ProtectedRootBlocksEveryKind ==
    \A q \in Queries :
        (IsSome(q.path) /\ ~IsSome(q.command) /\ UnderProtectedRoot(Unwrap(q.path))) =>
            /\ q.verdict.risk = Blocked
            /\ ~q.verdict.allowed

\* C4: for every operation kind other than read, list, stat and exists (in
\* any letter case), a path under a protected root is Blocked with allowed =
\* false, in any letter case and slash style of the path; and the dispatcher
\* performs nothing on such a path whether the request is confirmed or not.
C4_ProtectedRootBlocksModifyingKinds ==
    /\ \A q \in Queries :
          (/\ IsSome(q.path)
           /\ ~IsSome(q.command)
           /\ UnderProtectedRoot(Unwrap(q.path))
           /\ to_lowercase(q.action) \notin ReadKinds) =>
              /\ q.verdict.risk = Blocked
              /\ ~q.verdict.allowed
    /\ \A d \in Dispatches :
          (/\ d.request.action \in PathActions
           /\ IsSome(d.request.path)
           /\ UnderProtectedRoot(Unwrap(d.request.path))) =>
              /\ SysEvents(d) = {}
              /\ \A i \in Checks(d) : /\ d.trace[i].verdict.risk = Blocked
                                      /\ ~d.trace[i].verdict.allowed

C4_Witness ==
    \E q \in Queries :
        /\ q.path = Some("c:/windows/SYSTEM32/drivers/etc/hosts")
        /\ q.action = "Remove"
        /\ q.verdict.risk = Blocked

\* the text contains a deny-list entry or matches a dangerous pattern
DenyListed(text) ==
    \/ \E i \in 1..Len(BLOCKED_COMMANDS) : contains(text, BLOCKED_COMMANDS[i])
    \/ \E i \in 1..Len(dangerous_patterns) : is_match(dangerous_patterns[i], text)

StartsWithListedPrefix(text) ==
    \E list \in {safe_commands, medium_commands, high_commands} :
        \E i \in 1..Len(list) : starts_with(text, list[i])

\* the commands classified in a history entry, with the verdict each got
ShellVerdicts(h) ==
    IF IsDispatch(h)
    THEN IF h.request.action = "shell" /\ IsSome(h.request.command)
         THEN {<<Unwrap(h.request.command), h.trace[i].verdict>> : i \in Checks(h)}
         ELSE {}
    ELSE IF IsSome(h.command) THEN {<<Unwrap(h.command), h.verdict>>} ELSE {}

\* C5 as stated: a command whose lower-cased text matches the deny-list is
\* Blocked.
C5_LowerCasedDenyListBlocks ==
    \A h \in Entries : \A cv \in ShellVerdicts(h) :
        DenyListed(to_lowercase(cv[1])) =>
            /\ cv[2].risk = Blocked
            /\ ~cv[2].allowed

\* C5: a command whose lower-cased text, with the white space at its two
\* ends removed, matches the deny-list (substring or dangerous pattern) is
\* Blocked with allowed = false, also when it starts with a prefix of the
\* Safe, Medium or High list; the dispatcher spawns nothing for it.
C5_TrimmedDenyListBlocks ==
    \A h \in Entries :
        /\ \A cv \in ShellVerdicts(h) :
              DenyListed(trim(to_lowercase(cv[1]))) =>
                  /\ cv[2].risk = Blocked
                  /\ ~cv[2].allowed
        /\ (IsDispatch(h) /\ ShellVerdicts(h) /= {}) =>
              \A cv \in ShellVerdicts(h) :
                  DenyListed(trim(to_lowercase(cv[1]))) => SysEvents(h) = {}

C5_Witness ==
    \E h \in Entries : \E cv \in ShellVerdicts(h) :
        /\ cv[1] = "dir C:\\ & format D:"
        /\ StartsWithListedPrefix(to_lowercase(cv[1]))
        /\ DenyListed(trim(to_lowercase(cv[1])))
        /\ cv[2].risk = Blocked

\* C6: every verdict of the classifier and of the dispatcher with risk =
\* Blocked has allowed = false.
C6_BlockedIsNotAllowed ==
    \A h \in Entries : \A v \in VerdictsOf(h) : v.risk = Blocked => ~v.allowed

C6_Witness ==
    \E d \in Dispatches :
        /\ d.request.action = "format_disk"
        /\ Checks(d) = {}
        /\ d.result.safety.risk = Blocked
        /\ ~d.result.safety.allowed

\* C7: every verdict of the classifier and of the dispatcher that requires
\* confirmation is an allowed one.
C7_ConfirmationOnlyWhenAllowed ==
    \A h \in Entries : \A v \in VerdictsOf(h) : v.requires_confirmation => v.allowed

C7_Witness ==
    \E d \in Dispatches :
        /\ d.request.action = "kill_process"
        /\ \E v \in VerdictsOf(d) : v.requires_confirmation /\ v.allowed
        /\ \E v \in VerdictsOf(d) : v.risk = High

\* C8: a request handed to execute with confirmed = false whose verdict is
\* allowed and requires confirmation is not performed; its result has
\* success = false, an output that starts with the marker CONFIRMATION
\* REQUIRED, and carries the verdict.
C8_UnconfirmedIsNotPerformed ==
    \A d \in Dispatches :
        (d.via = "execute_action" /\ ~d.request.confirmed) =>
            \A i \in Gating(d) :
                /\ SysEvents(d) = {}
                /\ ~d.result.success
                /\ starts_with(d.result.output, CONFIRM_MARKER)
                /\ d.result.safety = d.trace[i].verdict

C8_Witness ==
    \E d \in Dispatches :
        /\ d.via = "execute_action"
        /\ d.request.action = "shell"
        /\ d.request.command = Some("Get-Process")
        /\ ~d.request.confirmed
        /\ Gating(d) /= {}
        /\ SysEvents(d) = {}
        /\ starts_with(d.result.output, CONFIRM_MARKER)

\* C9: of the submissions of one confirmation-gated request, those with
\* confirmed = false all get the same needs-confirmation result and invoke
\* nothing; one with confirmed = true invokes its operation exactly once;
\* and what a submission does is what a first submission of that request
\* does, whatever was submitted before it.
C9_ResubmissionIsStateless ==
    \A j \in 1..Len(hist) :
        Gating(hist[j]) /= {} =>
            /\ ~hist[j].request.confirmed =>
                  /\ SysEvents(hist[j]) = {}
                  /\ \A i \in Gating(hist[j]) :
                        hist[j].result = needs_confirm(hist[j].trace[i].verdict)
                  /\ \A i \in 1..j :
                        ~hist[i].request.confirmed => hist[i].result = hist[j].result
            /\ hist[j].request.confirmed => Cardinality(SysEvents(hist[j])) = 1
            /\ \E os \in OsAnswers :
                  /\ hist[j].trace = execute(hist[j].request, os).trace
                  /\ hist[j].result = execute(hist[j].request, os).result

C9_Witness ==
    /\ Len(hist) = 3
    /\ hist[1].request.action = "kill_process"
    /\ ~hist[1].request.confirmed /\ ~hist[2].request.confirmed
    /\ hist[3].request.confirmed
    /\ starts_with(hist[1].result.output, CONFIRM_MARKER)
    /\ hist[2].result = hist[1].result
    /\ SysEvents(hist[1]) = {} /\ SysEvents(hist[2]) = {}
    /\ Cardinality(SysEvents(hist[3])) = 1
    /\ hist[3].result.success

\* the name is an entry of the protected-process list, or an entry without
\* its ".exe", in any letter case
ProtectedName(name) ==
    \E i \in 1..Len(PROTECTED_PROCESSES) :
        \/ to_lowercase(name) = PROTECTED_PROCESSES[i]
        \/ to_lowercase(name) \o ".exe" = PROTECTED_PROCESSES[i]

\* C10: check_process_kill blocks exactly the names that equal a protected
\* entry, with or without ".exe" and in any letter case, and gives every
\* other name allowed, High, requires_confirmation; kill_process never
\* spawns taskkill for a protected name, confirmed or not.
C10_ProtectedProcessNeverKilled ==
    \A d \in Dispatches :
        (d.request.action = "kill_process" /\ IsSome(d.request.process_name)) =>
            /\ Checks(d) /= {}
            /\ \A i \in Checks(d) :
                  IF ProtectedName(Unwrap(d.request.process_name))
                  THEN /\ d.trace[i].verdict.risk = Blocked
                       /\ ~d.trace[i].verdict.allowed
                       /\ SysEvents(d) = {}
                  ELSE /\ d.trace[i].verdict.allowed
                       /\ d.trace[i].verdict.risk = High
                       /\ d.trace[i].verdict.requires_confirmation

C10_Witness ==
    \E d \in Dispatches :
        /\ d.request.action = "kill_process"
        /\ d.request.process_name = Some("LSASS")
        /\ d.request.confirmed
        /\ d.result.safety.risk = Blocked
        /\ SysEvents(d) = {}

\* the file operations classified in a history entry: the operation kind,
\* the path and the verdict of each
FileVerdicts(h) ==
    IF IsDispatch(h)
    THEN {}
    ELSE IF IsSome(h.path) /\ ~IsSome(h.command)
         THEN {<<h.action, Unwrap(h.path), h.verdict>>}
         ELSE {}

WriteKinds == {"write", "create", "move", "copy", "rename"}
SystemDrive == "c"
Normalized(path) == to_lowercase(replace(path, "/", "\\"))
UnderHome(path) == starts_with(Normalized(path), Normalized(HomeDir))
UnderTemp(path) == starts_with(Normalized(path), Normalized(TempDir))
OnNonSystemDrive(path) ==
    /\ Len(path) >= 3
    /\ is_ascii_alphabetic(CharAt(path, 1))
    /\ CharAt(path, 2) = ":"
    /\ lower_char(CharAt(path, 1)) /= SystemDrive
UnderAllowedRoot(path) ==
    \/ UnderHome(path)
    \/ UnderTemp(path)
    \/ OnNonSystemDrive(path) /\ ~is_protected_path(path)

\* C12: write, create, move, copy and rename are allowed only when the
\* target lies under the operator's home directory, under the temp
\* directory, or on a non-system drive without matching the deny-list;
\* every other target is refused with risk Blocked, and write_file through
\* execute writes nothing there.
C12_WriteKindsOnlyUnderAllowedRoots ==
    /\ \A h \in Entries : \A f \in FileVerdicts(h) :
          (to_lowercase(f[1]) \in WriteKinds /\ ~UnderAllowedRoot(f[2])) =>
              /\ ~f[3].allowed
              /\ f[3].risk = Blocked
    /\ \A d \in Dispatches :
          ( /\ d.request.action = "write_file"
            /\ IsSome(d.request.path)
            /\ ~UnderAllowedRoot(Unwrap(d.request.path)) ) =>
              SysEvents(d) = {}

DeleteKinds == {"delete", "remove", "rmdir"}

\* the dispatches of delete_file whose path is not protected
Deletions ==
    {d \in Dispatches : /\ d.request.action = "delete_file"
                        /\ IsSome(d.request.path)
                        /\ ~is_protected_path(Unwrap(d.request.path))}

C14_DeleteRequiresConfirmation ==
    /\ \A h \in Entries : \A f \in FileVerdicts(h) :
          (to_lowercase(f[1]) \in DeleteKinds /\ f[3].allowed) =>
              f[3].requires_confirmation
    /\ \A d \in Dispatches :
          (d.request.action = "delete_file" /\ ~d.request.confirmed) =>
              SysEvents(d) = {}

KnownKinds == ReadKinds \cup DeleteKinds \cup WriteKinds

\* C15: an operation kind outside the known kinds on a path that is not
\* protected is allowed with risk Medium and requires confirmation; it is
\* never allowed without confirmation, and it is refused only when its
\* path is protected.
C15_UnknownKindRequiresConfirmation ==
    \A h \in Entries : \A f \in FileVerdicts(h) :
        to_lowercase(f[1]) \notin KnownKinds =>
            /\ ~is_protected_path(f[2]) =>
                  /\ f[3].allowed
                  /\ f[3].risk = Medium
                  /\ f[3].requires_confirmation
            /\ f[3].allowed => f[3].requires_confirmation
            /\ ~f[3].allowed => is_protected_path(f[2]) /\ f[3].risk = Blocked

C15_Witness ==
    \E h \in Entries : \E f \in FileVerdicts(h) :
        /\ f[1] = "chmod"
        /\ ~is_protected_path(f[2])
        /\ f[3].allowed
        /\ f[3].requires_confirmation

HasPrefixIn(list, text) ==
    \E i \in 1..Len(list) : starts_with(to_lowercase(text), list[i])

\* the text is a Safe entry without the entry's trailing space
IsBareSafeEntry(text) ==
    \E i \in 1..Len(safe_commands) : to_lowercase(text) = trim(safe_commands[i])

\* the level the lists give a command when safe_match tells whether the
\* Safe list matches it: the risk and the confirmation requirement
LevelByLists(text, safe_match) ==
    IF safe_match THEN <<Safe, FALSE>>
    ELSE IF HasPrefixIn(medium_commands, text) THEN <<Medium, FALSE>>
    ELSE <<High, TRUE>>

\* the verdicts of the commands the deny-list does not match
ListedShellVerdicts ==
    {f \in UNION {ShellVerdicts(h) : h \in Entries} : ~IsSome(is_blocked_command(f[1]))}

\* the shell dispatches that were neither denied nor confirmed
UnconfirmedShell ==
    {d \in Dispatches : /\ d.request.action = "shell"
                        /\ IsSome(d.request.command)
                        /\ ~IsSome(is_blocked_command(Unwrap(d.request.command)))
                        /\ ~d.request.confirmed}

\* C16 as stated: past the deny-list the level of a command is decided by
\* prefixes alone - a Safe prefix gives Safe, else a Medium prefix gives
\* Medium, else (a High prefix or no prefix at all) High with confirmation.
C16_LevelByPrefixAlone ==
    \A f \in ListedShellVerdicts :
        /\ f[2].allowed
        /\ <<f[2].risk, f[2].requires_confirmation>>
              = LevelByLists(f[1], HasPrefixIn(safe_commands, f[1]))

\* C16: past the deny-list the lists are applied in the order Safe, Medium,
\* High, default, where the Safe list matches a command that starts with one
\* of its entries or equals one of them without its trailing space; Safe
\* and Medium need no confirmation, High and the default require it, and a
\* command matching no list is not run while unconfirmed.
C16_LevelByListsInOrder ==
    /\ \A f \in ListedShellVerdicts :
          /\ f[2].allowed
          /\ <<f[2].risk, f[2].requires_confirmation>>
                = LevelByLists(f[1], HasPrefixIn(safe_commands, f[1]) \/ IsBareSafeEntry(f[1]))
    /\ \A d \in UnconfirmedShell :
          ( /\ ~HasPrefixIn(safe_commands, Unwrap(d.request.command))
            /\ ~IsBareSafeEntry(Unwrap(d.request.command))
            /\ ~HasPrefixIn(medium_commands, Unwrap(d.request.command)) ) =>
              /\ SysEvents(d) = {}
              /\ starts_with(d.result.output, CONFIRM_MARKER)

\* a command with a Safe and a High prefix classified Safe
C16_Witness ==
    \E f \in ListedShellVerdicts :
        /\ HasPrefixIn(safe_commands, f[1])
        /\ HasPrefixIn(high_commands, f[1])
        /\ f[2].risk = Safe
        /\ ~f[2].requires_confirmation

\* the closed tables of the dispatcher and of the desktop family
ActionTable ==
    {"read_file", "write_file", "delete_file", "list_dir", "create_dir", "file_exists",
     "file_info", "move_file", "copy_file", "shell", "open_app", "open_url",
     "list_processes", "kill_process", "system_info", "disk_usage"}
DesktopTable ==
    {"list_windows", "focus_window", "open_app", "send_keys", "key_combo", "type_text",
     "click", "screenshot", "read_screen", "read_window_text", "get_clipboard", "wait"}

\* the dispatches whose name is outside the table that was consulted: the
\* ones handed to execute, and the ones handed to execute_desktop
ToDesktop(d) == d.via = "gateway_ws_loop" /\ d.request.action = "desktop"
UnknownTopLevel == {d \in Dispatches : ~ToDesktop(d) /\ d.request.action \notin ActionTable}
UnknownDesktop ==
    {d \in Dispatches :
        /\ ToDesktop(d)
        /\ unwrap_or(as_str(get(d.params, "action")), "") \notin DesktopTable \cup {""}}

DefaultDeny(d) ==
    /\ ~d.result.success
    /\ d.result.safety = SafetyVerdict(FALSE, Blocked, "Unknown action", FALSE)
    /\ d.trace = <<>>

\* C17 as stated: every name outside the closed table, a name of the desktop
\* family included, gets success = false with the verdict not allowed,
\* Blocked, "Unknown action", and nothing is performed.
C17_UnknownNameDenied ==
    \A d \in UnknownTopLevel \cup UnknownDesktop : DefaultDeny(d)

\* C17: a name outside the table of execute gets success = false with the
\* verdict not allowed, Blocked, "Unknown action" and nothing is performed;
\* an unknown name of the desktop family gets success = false too, and no
\* desktop operation is performed, but its verdict is the neutral one
\* (allowed, Safe), its output names the unknown desktop action, and the
\* delay asked for in the params is slept first.
C17_UnknownNameFails ==
    /\ \A d \in UnknownTopLevel : DefaultDeny(d)
    /\ \A d \in UnknownDesktop :
          /\ ~d.result.success
          /\ d.result.safety = safe_verdict
          /\ d.result.output = "Unknown desktop action: "
                                  \o unwrap_or(as_str(get(d.params, "action")), "")
          /\ \A i \in 1..Len(d.trace) :
                d.trace[i].ev = "sys" /\ d.trace[i].op = "thread::sleep"
          /\ Len(d.trace) = IF unwrap_or(as_num(get(d.params, "delay")), 0) > 0
                            THEN 1 ELSE 0

C17_Witness ==
    \E d \in UnknownTopLevel :
        /\ d.via = "gateway_ws_loop"
        /\ d.request.action = "format_disk"
        /\ d.result.output = "Unknown action: format_disk"
        /\ d.result.safety.risk = Blocked

\* the fields an action kind cannot do without
RequiredFields(action) ==
    CASE action \in {"read_file", "delete_file", "create_dir", "file_exists", "file_info",
                     "open_url"} -> {"path"}
      [] action \in {"write_file", "move_file", "copy_file"} -> {"path", "content"}
      [] action = "shell" -> {"command"}
      [] action = "open_app" -> {"app_name"}
      [] action = "kill_process" -> {"process_name"}
      [] OTHER -> {}

LacksRequiredField(d) ==
    /\ d.params = JNull
    /\ \E f \in RequiredFields(d.request.action) : ~IsSome(d.request[f])

\* C18: a request lacking a field its action kind requires gets success =
\* false with the neutral verdict (allowed, Safe, no confirmation); the
\* classifier is not consulted and no system operation is invoked.
C18_MissingFieldShortCircuits ==
    \A d \in Dispatches :
        LacksRequiredField(d) =>
            /\ ~d.result.success
            /\ d.result.safety = SafetyVerdict(TRUE, Safe, "", FALSE)
            /\ d.trace = <<>>

\* a write to a protected path without its content: the neutral verdict,
\* not the Blocked one
C18_Witness ==
    \E d \in Dispatches :
        /\ d.request.action = "write_file"
        /\ d.request.path = Some("C:\\Windows\\System32\\cmd.exe")
        /\ ~IsSome(d.request.content)
        /\ d.result.output = "content is required"
        /\ d.result.safety.risk = Safe

\* the calls that swapped the flag and have not spawned their task yet
Spawning == {i \in 1..Len(calls) : calls[i].pc = "spawning"}

\* the tasks holding an open connection
Connected == {k \in 1..Len(loops) : loops[k].pc \in {"connected", "closing"}}

\* C19: however often and however concurrently spawn_gateway_ws and
\* connect_gateway_ws are called, one gateway_ws_loop is started: the call
\* that found the flag clear starts it, every other call finds the flag set
\* and starts nothing.
C19_StartedOnce ==
    /\ Len(loops) + Cardinality(Spawning) = IF calls = <<>> THEN 0 ELSE 1
    /\ \A i \in 1..Len(calls) : calls[i].found <=> i > 1
    /\ (\A i \in 1..Len(calls) : calls[i].pc = "returned") /\ calls /= <<>>
          => Len(loops) = 1

\* a second call returns while the first has not spawned its task yet
C19_Witness ==
    /\ Len(calls) >= 2
    /\ calls[1].pc = "spawning"
    /\ calls[2].pc = "returned"
    /\ calls[2].found
    /\ loops = <<>>

\* C20: after any interleaving of spawn_gateway_ws, connect_gateway_ws and
\* force_reconnect_gateway_ws at most one gateway_ws_loop task runs and at
\* most one connection is open.
C20_OneLoopOneConnection ==
    /\ Len(loops) <= 1
    /\ Cardinality(Connected) <= 1

\* a step of force_reconnect_gateway_ws signalling the reconnect
ReconnectSignalled ==
    /\ Len(calls') = Len(calls) + 1
    /\ calls'[Len(calls')].command = "force_reconnect_gateway_ws"

\* a step in which task k starts a connection attempt
AttemptStarts(k) ==
    /\ k <= Len(loops)
    /\ loops[k].pc \in {"init", "no_credentials", "retry"}
    /\ loops'[k].pc = "connecting"

\* C21: a force reconnect called while connections are established
\* interrupts the wait of each of them (after the signal no established
\* connection is left that is neither woken nor about to take the permit),
\* and every connection attempt that follows uses the credentials read
\* from the store for that attempt.
C21_ReconnectInterruptsAndReloads ==
    [][ /\ ReconnectSignalled =>
              Cardinality({k \in 1..Len(loops') : loops'[k].pc = "connected"})
                  <= IF RECONNECT_NOTIFY' THEN 1 ELSE 0
        /\ \A k \in 1..Len(loops') : AttemptStarts(k) => loops'[k].creds = credentials
      ]_vars

IsPrefix(a, b) == Len(a) <= Len(b) /\ SubSeq(b, 1, Len(a)) = a

\* C23: within one connection the frames go on the wire in the order they
\* were queued, whoever queued them: a step of a connection whose send task
\* keeps running either only adds frames behind the queued ones or writes
\* the oldest queued frame and removes it from the queue.
C23_WrittenInEnqueueOrder ==
    [][ (Sending /\ Sending') =>
          \/ wire' = wire /\ IsPrefix(outq, outq')
          \/ outq /= <<>> /\ wire' = Append(wire, Head(outq)) /\ outq' = Tail(outq) ]_vars

\* two frames of different producers were written, in the order they were queued
C23_Witness ==
    /\ Sending
    /\ Len(wire) = 2
    /\ as_str(get(wire[1], "type")) = Some("action_result")
    /\ wire[2] \in {HEALTH_PING, PONG}

\* the gateway_ws_loop path: requests are executing on blocking threads
WsExecuting == Established /\ slots /= {}

\* the connection object's path: its receive task is inside execute
ConnectExecuting == connection.executing /= None

WsProgress ==
    (WsExecuting /\ InFlight < MaxFrames /\ Pings < MaxFrames) =>
        /\ ENABLED keepalive_tick
        /\ \A raw \in Frames :
              \/ slot_of(raw) \in {[slot EXCEPT !.tx = "open"] : slot \in slots}
              \/ ENABLED ws_receive(raw)
        /\ \A slot \in slots : \E os \in OsAnswers : ENABLED ws_slot_run(slot, os)

\* C24: while an action executes, the keepalive tick is handled and a later
\* action_request is taken up and can complete, on the path of
\* gateway_ws_loop and on the path of GatewayConnection::connect alike.
C24_ProgressWhileExecuting ==
    /\ WsProgress
    /\ (ConnectExecuting /\ InFlight < MaxFrames) =>
          \A raw \in ConnectFrames : ENABLED connect_receive(raw)

\* the requests that finish in this step
Finished == slots \ slots'

\* the frames this step adds to the queue
Enqueued == IF IsPrefix(outq, outq') THEN SubSeq(outq', Len(outq) + 1, Len(outq')) ELSE <<>>

IsActionResult(frame) == as_str(get(frame, "type")) = Some("action_result")

Completed == {slot \in Finished : Cardinality(slots') < Cardinality(slots)}

\* C26: a request that is executing when its connection is closed is not
\* cancelled; it runs to its end, and when a connection exists again by
\* then, its action_result is put into the queue of that connection.
C26_ResultReachesNewConnection ==
    [][ \A slot \in Completed :
            /\ hist'[1].request = request_of_params(slot.action, slot.params)
            /\ (Established /\ Sending) =>
                  Enqueued = <<action_result_frame(slot.request_id, hist'[1].result)>> ]_vars

\* C27: on an established connection the keepalive tick is handled; it
\* puts the health.ping frame with id keepalive at the end of the queue and
\* nothing else, and when the queue is closed it ends the receive loop: the
\* task is past the loop and on its way to the next attempt.
C27_TickPingsOrEndsConnection ==
    /\ (Established /\ Sending /\ Pings < MaxFrames) =>
          /\ ENABLED keepalive_tick
          /\ ~ENABLED (keepalive_tick /\ ~(outq' = Append(outq, HEALTH_PING) /\ Established'))
    /\ (Established /\ ~Sending) =>
          /\ ENABLED keepalive_tick
          /\ ~ENABLED (keepalive_tick /\ ~(loops'[1].pc = "retry" /\ outq' = <<>>))
    /\ (loops /= <<>> /\ loops[1].pc = "retry") => ENABLED load_credentials(1)

\* a ping was queued and written, and the send task has ended since: the
\* next tick finds the queue closed
C27_Witness ==
    /\ Established
    /\ loops[1].sender = "exited"
    /\ wire /= <<>>
    /\ wire[1] = HEALTH_PING

\* C28: on an established connection, when the receive task stops reading
\* (a read error, a Close frame of the server, the end of the stream), the
\* state of the connection becomes Reconnecting.
C28_ReadEndSetsReconnecting ==
    [][ (connection.state = "Connected" /\ connection.receive = "running"
            /\ connection'.receive = "ended") =>
          connection'.state = "Reconnecting" ]_vars

\* an attempt of the task is refused, or no Gateway answers it
AttemptFails == loops /= <<>> /\ loops[1].pc = "connecting" /\ loops'[1].pc = "retry"

\* the Gateway accepts connections from some point on
GatewayAccepts == <>[][~AttemptFails]_vars

\* the ping frame of the connection is queued or on the wire
Pinged == Established /\ Pings > 0

\* C29: the task recovers by itself, however often it failed before: when
\* from some point on credentials are stored and the Gateway accepts
\* connections, the task is connected again and again, whatever it went
\* through before; and a connection that lasts gets its keepalive ping.
C29_RecoversByItself ==
    (<>[](credentials /= None) /\ GatewayAccepts) =>
        /\ []<>Established
        /\ (<>[]Established => <>[]Pinged)

\* connected and pinging with credentials that were paired after the first
\* ones: the task went through a lost connection and a new attempt
C29_Witness ==
    /\ Pinged
    /\ loops[1].creds = Some("companion-2")
    /\ credentials = Some("companion-1")

\* the frames that are not JSON, or carry no type the receive loop knows
SkippedFrames ==
    {f \in Frames :
        \/ from_str(f) = None
        \/ unwrap_or(as_str(get(f, "type")), "") \notin {"action_request", "health.pong"}}

\* C30: a text frame that is not JSON, or has no known type, is read and
\* skipped: reading it changes nothing, so nothing is executed, the task
\* stays in its receive loop and what follows is handled as before.
C30_BadFrameIsSkipped ==
    (Established /\ InFlight < MaxFrames) =>
        \A raw \in SkippedFrames :
            /\ ENABLED ws_receive(raw)
            /\ ~ENABLED (ws_receive(raw) /\ vars' /= vars)

\* a frame that is not JSON arrives while a request is executing and a
\* result is queued
C30_Witness ==
    /\ Malformed \in SkippedFrames
    /\ Cardinality(SkippedFrames) = 4
    /\ Established
    /\ Sending
    /\ InFlight < MaxFrames
    /\ slots /= {}
    /\ ENABLED ws_receive(Malformed)

\* the params of the request are missing, empty or not an object
UnusableParams(slot) == slot.params.t /= "obj" \/ slot.params = JObj(NoKeys)

\* the actions of the table that need no field of the request
NoFieldActions == {action \in ActionTable : RequiredFields(action) = {}}

Answered(slot) ==
    /\ hist'[1].request = ActionRequest(slot.action, None, None, None, None, None, None, TRUE)
    /\ Enqueued = <<action_result_frame(slot.request_id, hist'[1].result)>>

\* C31 as stated: every action_request whose params are missing or not an
\* object, whatever its action, is answered by an action_result frame under
\* its requestId with success = false.
C31_UnusableParamsFail ==
    [][ \A slot \in Completed :
            (UnusableParams(slot) /\ slot.tx = "open" /\ Sending /\ Sending') =>
                Answered(slot) /\ ~hist'[1].result.success ]_vars

\* C31 as the code has it: such a request is run as the request without any
\* field and answered by an action_result frame under its requestId; the
\* frame has success = false unless the action needs no field (list_dir,
\* list_processes, system_info, disk_usage), which runs as it would with
\* empty params.
C31_UnusableParamsAnswered ==
    [][ \A slot \in Completed :
            (UnusableParams(slot) /\ slot.tx = "open" /\ Sending /\ Sending') =>
                /\ Answered(slot)
                /\ slot.action \notin NoFieldActions => ~hist'[1].result.success ]_vars

\* a request without params for an action that needs a field was answered
\* with a failure
C31_Witness ==
    /\ hist /= <<>>
    /\ hist[1].via = "gateway_ws_loop"
    /\ hist[1].request = ActionRequest("read_file", None, None, None, None, None, None, TRUE)
    /\ ~hist[1].result.success
    /\ outq /= <<>>
    /\ outq[Len(outq)] = action_result_frame("r13", hist[1].result)

\* the command deletes or modifies a key under a protected registry path
WritesProtectedRegistry(command) ==
    Bind(to_lowercase(command), LAMBDA cmd_lower :
        /\ starts_with(cmd_lower, "reg delete ") \/ starts_with(cmd_lower, "reg add ")
        /\ \E i \in 1..Len(PROTECTED_REGISTRY) :
              contains(cmd_lower, " " \o to_lowercase(PROTECTED_REGISTRY[i])))

\* C32: a shell command that deletes or modifies a key under a path of
\* PROTECTED_REGISTRY is classified Blocked, and a request that carries it
\* invokes no system operation, whatever its confirmed flag.
C32_ProtectedRegistryBlocked ==
    /\ \A h \in Entries : \A f \in ShellVerdicts(h) :
          WritesProtectedRegistry(f[1]) => ~f[2].allowed /\ f[2].risk = Blocked
    /\ \A d \in Dispatches :
          (d.request.action = "shell" /\ IsSome(d.request.command)
              /\ WritesProtectedRegistry(Unwrap(d.request.command))) =>
                  ~d.result.success /\ SysEvents(d) = {}

(***************************************************************************)
(* C33: execute is total: every dispatch, whatever the action, the fields  *)
(* and the size and content of the text read from a file or captured from  *)
(* a command, returns an ActionResult.                                     *)
(***************************************************************************)
Returned(result) == DOMAIN result = {"success", "output", "safety"}

C33_ExecuteIsTotal ==
    \A i \in 1..Len(hist) : IsDispatch(hist[i]) => Returned(hist[i].result)

(***************************************************************************)
(* C34: every text the dispatcher returns is capped at a fixed byte        *)
(* budget, and a text that was longer than the budget is returned cut at   *)
(* the budget with a marker behind it that states the original size; for   *)
(* read_file, shell, the desktop outputs of run_powershell, list_dir,      *)
(* list_processes, kill_process, system_info and disk_usage alike.         *)
(***************************************************************************)
Budget(action) == IF action \in {"shell", "desktop"} THEN SHELL_LIMIT ELSE READ_LIMIT
MarkerRoom == Len("...\n\n[Truncated: " \o ToString(READ_LIMIT) \o "0 bytes total]")
OriginalSizes == {Len(os.out) + Len(os.errout) : os \in TextAnswers}

\* the output is within the budget, or it is the budget's worth of text with
\* a short marker that holds the size of the original
CappedAndMarked(action, output) ==
    Len(output) > Budget(action) =>
        /\ Len(output) <= Budget(action) + MarkerRoom
        /\ \E n \in OriginalSizes :
              contains(SubSeq(output, Budget(action) + 1, Len(output)), ToString(n))

C34_OutputCappedAndMarked ==
    \A i \in 1..Len(hist) :
        (IsDispatch(hist[i]) /\ Returned(hist[i].result)) =>
            CappedAndMarked(hist[i].request.action, hist[i].result.output)

(***************************************************************************)
(* C35: a delete-class or write-class file operation whose path reaches a  *)
(* protected root only after its relative segments are resolved is         *)
(* Blocked: the check is made on the target, not on the text of the path.  *)
(***************************************************************************)
\* a segment put behind the directories above it: "." stays where it is and
\* ".." leaves the last directory; the drive is never left
Entered(above, segment) ==
    IF segment \in {"", "."} THEN above
    ELSE IF segment = ".."
    THEN IF Len(above) > 1 THEN SubSeq(above, 1, Len(above) - 1) ELSE above
    ELSE Append(above, segment)

\* the directories a path walks through, segment by segment
RECURSIVE Walk(_, _, _)
Walk(path, above, segment) ==
    IF path = "" THEN Entered(above, segment)
    ELSE IF CharAt(path, 1) \in {"/", "\\"}
    THEN Walk(SubSeq(path, 2, Len(path)), Entered(above, segment), "")
    ELSE Walk(SubSeq(path, 2, Len(path)), above, segment \o CharAt(path, 1))

RECURSIVE Joined(_)
Joined(segments) ==
    IF segments = <<>> THEN ""
    ELSE IF Len(segments) = 1 THEN segments[1]
    ELSE segments[1] \o "\\" \o Joined(Tail(segments))

\* the file an absolute path names
Resolved(path) == Joined(Walk(path, <<>>, ""))

ClimbsIntoProtectedRoot(path) ==
    /\ ~UnderProtectedRoot(path)
    /\ UnderProtectedRoot(Resolved(path))

ModifyingKinds == DeleteKinds \cup WriteKinds

C35_ResolvedTargetBlocked ==
    /\ \A q \in Queries :
          (/\ IsSome(q.path)
           /\ ~IsSome(q.command)
           /\ to_lowercase(q.action) \in ModifyingKinds
           /\ ClimbsIntoProtectedRoot(Unwrap(q.path))) =>
              /\ q.verdict.risk = Blocked
              /\ ~q.verdict.allowed
    /\ \A d \in Dispatches :
          (/\ d.request.action \in PathActions
           /\ IsSome(d.request.path)
           /\ ClimbsIntoProtectedRoot(Unwrap(d.request.path))) =>
              /\ d.result.safety.risk = Blocked
              /\ SysEvents(d) = {}

(***************************************************************************)
(* C36: is_protected_path is true for every path in or under a protected   *)
(* directory, in any letter case and slash style, and false for every      *)
(* other path: user profile paths, other drives, and the siblings of a     *)
(* protected root with a longer name.  A delete is Blocked exactly when    *)
(* is_protected_path is true of its path.                                  *)
(***************************************************************************)
C36_ProtectedExactlyUnderRoot ==
    \A q \in Queries :
        (IsSome(q.path) /\ ~IsSome(q.command) /\ to_lowercase(q.action) \in DeleteKinds) =>
            /\ is_protected_path(Unwrap(q.path)) <=> UnderProtectedRoot(Unwrap(q.path))
            /\ q.verdict.risk = Blocked <=> UnderProtectedRoot(Unwrap(q.path))

(***************************************************************************)
(* C37: results are enqueued in completion order.  Whichever request in    *)
(* flight finishes, and any of them can, its action_result goes behind the *)
(* frames already queued and before the result of every request that is    *)
(* still executing; the order of the requests plays no part.               *)
(***************************************************************************)
C37_CompletionOrder ==
    \A slot \in slots : \A os \in OsAnswers :
        /\ ENABLED ws_slot_run(slot, os)
        /\ (slot.tx = "open" /\ Sending) =>
              ~ENABLED (/\ ws_slot_run(slot, os)
                        /\ \/ outq' /= Append(outq, action_result_frame(slot.request_id,
                                                                        hist'[1].result))
                           \/ wire' /= wire
                           \/ slots' /= slots \ {slot})

\* r6 finished while r1 was executing: its result is written, the result of
\* r1 is queued behind it
C37_Witness ==
    /\ Sending
    /\ Len(wire) = 1
    /\ IsActionResult(wire[1])
    /\ as_str(get(wire[1], "requestId")) = Some("r6")
    /\ Len(outq) = 1
    /\ as_str(get(outq[1], "requestId")) = Some("r1")
    /\ IsActionResult(outq[1])

(***************************************************************************)
(* C38: check_safety reports the verdict the dispatcher would apply: for   *)
(* every action name of the dispatch table and every path or command, the  *)
(* verdict of check_safety(action, path, command) has the allowed, risk    *)
(* and requires_confirmation of the verdict in the result of               *)
(* execute_action for the request with that action and those arguments.    *)
(***************************************************************************)
\* the request with that action and those arguments
Asked(q, confirmed) == Req(q.action, q.path, q.command, None, None, None, confirmed)

SameVerdict(a, b) ==
    /\ a.allowed = b.allowed
    /\ a.risk = b.risk
    /\ a.requires_confirmation = b.requires_confirmation

C38_CheckSafetyPredictsExecute ==
    \A q \in Queries :
        q.action \in ActionTable =>
            \A confirmed \in BOOLEAN, os \in OsAnswers :
                Asked(q, confirmed) \in Requests =>
                    SameVerdict(q.verdict, Dispatch[Asked(q, confirmed), os].result.safety)

(***************************************************************************)
(* C39: the two routes to killing a process agree on what is forbidden:    *)
(* a shell command that force-kills by image name, in any order of its     *)
(* arguments, a process that check_process_kill blocks is Blocked by       *)
(* check_shell_command, and nothing is spawned for it.                     *)
(***************************************************************************)
ForceKills(command, name) ==
    Bind(to_lowercase(command), LAMBDA cmd_lower :
        /\ starts_with(cmd_lower, "taskkill ")
        /\ contains(cmd_lower, " /f")
        /\ contains(cmd_lower, " /im " \o to_lowercase(name)))

KillsProtectedProcess(command) ==
    \E i \in 1..Len(PROTECTED_PROCESSES) :
        /\ check_process_kill(PROTECTED_PROCESSES[i]).risk = Blocked
        /\ ForceKills(command, PROTECTED_PROCESSES[i])

C39_ShellKillOfProtectedBlocked ==
    /\ \A q \in Queries :
          (IsSome(q.command) /\ KillsProtectedProcess(Unwrap(q.command))) =>
              /\ q.verdict.risk = Blocked
              /\ ~q.verdict.allowed
    /\ \A d \in Dispatches :
          (/\ d.request.action = "shell"
           /\ IsSome(d.request.command)
           /\ KillsProtectedProcess(Unwrap(d.request.command))) =>
              /\ d.result.safety.risk = Blocked
              /\ SysEvents(d) = {}

(***************************************************************************)
(* C40: a failed write to the transport is detected within one keepalive   *)
(* period: when the send task of a connection has stopped on a failed      *)
(* write, the connection is ended and the task is on the reconnect path,   *)
(* by the next tick at the latest, though the read side delivers no frame, *)
(* no error and no close.  Only the timers and the tasks of the loop are   *)
(* scheduled (SpecRecover).                                                *)
(***************************************************************************)
WriteFailed == Established /\ loops[1].sender = "exited"

C40_FailedWriteEndsConnection == WriteFailed ~> ~Established

\* the first write of the connection failed and nothing arrives
C40_Witness ==
    /\ WriteFailed
    /\ wire = <<>>
    /\ outq = <<>>
    /\ slots = {}

====
